---------------------------- MODULE Spec2Model ----------------------------
(***************************************************************************)
(* FinTrackable: fingerprinting, import de-duplication, the re-hash         *)
(* maintenance pass, the rule-based categorization engine and category      *)
(* creation, the analytics totals and the budget table, and the amount,     *)
(* date and file parsers, modelled from the Python sources.                 *)
(*                                                                          *)
(* Conventions.                                                             *)
(*  - Python str is a TLA+ string; Optional[str] is None (the empty tuple)  *)
(*    or a one-element tuple <<s>>.                                         *)
(*  - datetime.date is a record [y, m, d]; Decimal is a record              *)
(*    [neg, coef, scale] (sign, coefficient, number of decimals), so that   *)
(*    Decimal("45.5") and Decimal("45.50") are different values with        *)
(*    different str().                                                      *)
(*  - hashlib.md5(..).hexdigest() is modelled as an injective tag of the    *)
(*    hashed string (no digest collisions).                                 *)
(*  - Analytics amounts are whole cents; a percentage is a Ratio compared   *)
(*    by cross-multiplication.                                              *)
(*  - A pandas cell is a record Cell(kind, s, n, d); a parser call gives    *)
(*    [raised, val]; a str is processed as its sequence of characters.      *)
(*  - Each specification uses its own group of variables; the groups of the *)
(*    other specifications stay at their idle values.                       *)
(***************************************************************************)
EXTENDS Integers, Sequences, FiniteSets, TLC

VARIABLES objs, ret, db, nextId, pending, log, mig,
          engine, txs, before, results,
          cats, catNextId, catConstraint, sess,
          an, reads, pin, pout, ai, review, memo, sugg, wiz

hashVars == <<objs, ret>>

impVars == <<db, nextId, pending, log>>

migVars == <<mig>>

catVars == <<engine, txs, before, results>>

createVars == <<cats, catNextId, catConstraint, sess>>

anVars == <<an, reads>>

parseVars == <<pin, pout>>

\* the variables of the views and services around the store
viewVars == <<ai, review, memo, sugg, wiz>>

vars == <<hashVars, impVars, migVars, catVars, createVars, anVars, parseVars,
          viewVars>>

\* what the actions of each specification leave unchanged
OutsideHash == <<impVars, migVars, catVars, createVars, anVars, parseVars, viewVars>>

OutsideImp == <<hashVars, migVars, catVars, createVars, anVars, parseVars, viewVars>>

OutsideMig == <<hashVars, pending, log, catVars, createVars, anVars, parseVars, viewVars>>

OutsideCat == <<hashVars, impVars, migVars, createVars, anVars, parseVars, viewVars>>

OutsideCreate == <<hashVars, impVars, migVars, catVars, anVars, parseVars, viewVars>>

OutsideAn == <<hashVars, impVars, migVars, catVars, createVars, parseVars, viewVars>>

OutsideParse == <<hashVars, impVars, migVars, catVars, createVars, anVars, viewVars>>

---------------------------------------------------------------------------
(* Python values *)

None == <<>>

\* the idle values of each group of variables
HashIdle == objs = <<>> /\ ret = <<>>

ImpIdle == db = <<>> /\ nextId = 1 /\ pending = None /\ log = None

MigIdle == mig = None

CatIdle == engine = None /\ txs = <<>> /\ before = None /\ results = <<>>

CreateIdle == cats = <<>> /\ catNextId = 1 /\ catConstraint = FALSE /\ sess = <<>>

AnIdle == an = None /\ reads = <<>>

ParseIdle == pin = None /\ pout = <<>>

AiIdle == ai = None

ReviewIdle == review = None

MemoIdle == memo = None

SuggIdle == sugg = None

WizIdle == wiz = None

ViewIdle == AiIdle /\ ReviewIdle /\ MemoIdle /\ SuggIdle /\ WizIdle

Some(s) == <<s>>

\* `v or ''` for an Optional[str]
OrEmpty(v) == IF v = None THEN "" ELSE v[1]

\* truthiness of an Optional[str]: None and '' are falsy
Truthy(v) == v # None /\ v[1] # ""

RECURSIVE Pow10(_)
Pow10(n) == IF n = 0 THEN 1 ELSE 10 * Pow10(n - 1)

RECURSIVE ZeroPad(_, _)
ZeroPad(s, width) == IF Len(s) >= width THEN s ELSE ZeroPad("0" \o s, width)

\* str(date): ISO format YYYY-MM-DD
DateStr(d) ==
    ZeroPad(ToString(d.y), 4) \o "-" \o ZeroPad(ToString(d.m), 2) \o "-"
        \o ZeroPad(ToString(d.d), 2)

\* str(Decimal): sign, integer digits and exactly `scale` decimals
DecStr(b) ==
    LET sign == IF b.neg THEN "-" ELSE ""
        ip   == b.coef \div Pow10(b.scale)
        fp   == b.coef % Pow10(b.scale)
    IN  IF b.scale = 0
        THEN sign \o ToString(ip)
        ELSE sign \o ToString(ip) \o "." \o ZeroPad(ToString(fp), b.scale)

Md5(s) == <<"md5", s>>

---------------------------------------------------------------------------
(* models/transaction.py *)

\* the f-string of Transaction.generate_hash
hash_string(t) ==
    DateStr(t.datum) \o "|" \o DecStr(t.bedrag) \o "|"
        \o OrEmpty(t.naam_tegenpartij) \o "|" \o OrEmpty(t.omschrijving)

\* a slip that returns the stored hash when there is one
generate_hash_cached(t) == IF Truthy(t.hash) THEN t.hash[1] ELSE Md5(hash_string(t))

\* the value Transaction.generate_hash returns (and stores in self.hash)
generate_hash(t) == Md5(hash_string(t))

Transaction(datum, bedrag, naam, omschr) ==
    [id |-> None, user_id |-> None, datum |-> datum, bedrag |-> bedrag,
     naam_tegenpartij |-> naam, omschrijving |-> omschr,
     categorie |-> Some("Overig"), categorie_id |-> None,
     is_confirmed |-> FALSE, hash |-> None]

KeyFields(t) == <<t.datum, t.bedrag, t.naam_tegenpartij, t.omschrijving>>

---------------------------------------------------------------------------
(* Bounded value sets *)

Dates == {[y |-> 2024, m |-> 3, d |-> 1], [y |-> 2024, m |-> 3, d |-> 2]}

Dec(neg, coef, scale) == [neg |-> neg, coef |-> coef, scale |-> scale]

\* 100.00, -45.50, -45.5, 0
Amounts == {Dec(FALSE, 10000, 2), Dec(TRUE, 4550, 2), Dec(TRUE, 455, 1), Dec(FALSE, 0, 0)}

\* absent, empty, plain, and with the separator character
Texts == {None, Some(""), Some("A"), Some("A|B"), Some("B|")}

---------------------------------------------------------------------------
(* Fingerprint specification: generate_hash called on two Transaction      *)
(* objects whose fields are drawn from the bounded sets.                   *)

MaxCalls == 2

HashAmounts == {Dec(TRUE, 4550, 2), Dec(TRUE, 455, 1)}

\* the fields generate_hash does not read: a fresh object, and one read back
\* from the store with a hash computed by an older definition
Fresh(t) == t

Stored(t) ==
    [t EXCEPT !.id = Some("id-1"), !.user_id = Some("u1"),
              !.categorie = Some("Inkomen"), !.categorie_id = Some("c-1"),
              !.is_confirmed = TRUE, !.hash = Some(Md5("legacy"))]

HashObjects ==
    LET keys == {Transaction(d, b, n, o) : d \in Dates, b \in HashAmounts,
                                           n \in Texts, o \in Texts}
    IN  {Fresh(t) : t \in keys} \cup {Stored(t) : t \in keys}

HashInit ==
    /\ ImpIdle /\ MigIdle /\ CatIdle /\ CreateIdle /\ AnIdle /\ ParseIdle /\ ViewIdle
    /\ objs \in [1..2 -> HashObjects]
    /\ ret = [i \in 1..2 |-> <<>>]

\* h = t.generate_hash(): the hash is stored in the object and returned
CallGenerateHash(i) ==
    /\ Len(ret[i]) < MaxCalls
    /\ LET h == generate_hash(objs[i])
       IN  /\ objs' = [objs EXCEPT ![i].hash = Some(h)]
           /\ ret' = [ret EXCEPT ![i] = Append(@, h)]

HashNext == \E i \in 1..2 : CallGenerateHash(i) /\ UNCHANGED OutsideHash

SpecHash == HashInit /\ [][HashNext]_vars

\* C5: generate_hash is a function of (datum, bedrag, naam_tegenpartij,
\* omschrijving) only: every value returned for two objects that agree on
\* these four fields is the same, whatever their id, user, category,
\* confirmed flag or stored hash, and repeated calls on one object return
\* the same value.
C5_HashDeterministic ==
    \A i \in 1..2, j \in 1..2 :
        KeyFields(objs[i]) = KeyFields(objs[j]) =>
            \A k \in 1..Len(ret[i]), l \in 1..Len(ret[j]) : ret[i][k] = ret[j][l]

\* two objects with equal key fields and different other fields, one of
\* them called twice
C5_Witness ==
    /\ KeyFields(objs[1]) = KeyFields(objs[2])
    /\ objs[1].id # objs[2].id
    /\ Len(ret[1]) = 2 /\ Len(ret[2]) >= 1

\* C6: two field tuples that differ in at least one field get different
\* fingerprints (absent, empty and separator-bearing texts included).
C6_HashSensitive ==
    \A i \in 1..2, j \in 1..2 :
        (KeyFields(objs[i]) # KeyFields(objs[j]) /\ ret[i] # <<>> /\ ret[j] # <<>>)
            => ret[i][1] # ret[j][1]

---------------------------------------------------------------------------
(* The row store (database/operations.py) *)

Users == {"u1", "u2"}

HashFetchLimit == 10000

\* float(self.bedrag): the number without its trailing decimal zeros
RECURSIVE to_float(_)
to_float(b) ==
    IF b.scale > 0 /\ b.coef % 10 = 0
    THEN to_float(Dec(b.neg, b.coef \div 10, b.scale - 1))
    ELSE b

\* Transaction.to_dict: `self.hash or self.generate_hash()`
to_dict(t) ==
    [datum |-> DateStr(t.datum), bedrag |-> to_float(t.bedrag),
     naam_tegenpartij |-> t.naam_tegenpartij, omschrijving |-> t.omschrijving,
     categorie_id |-> t.categorie_id, is_confirmed |-> t.is_confirmed,
     hash |-> IF Truthy(t.hash) THEN t.hash[1] ELSE generate_hash(t)]

SeqToSet(s) == {s[i] : i \in 1..Len(s)}

RECURSIVE SelectSeq2(_, _)
\* the rows of table `tbl` owned by `user`, in table order
SelectSeq2(tbl, user) ==
    IF tbl = <<>> THEN <<>>
    ELSE IF Head(tbl).user_id = user
         THEN <<Head(tbl)>> \o SelectSeq2(Tail(tbl), user)
         ELSE SelectSeq2(Tail(tbl), user)

Take(s, n) == SubSeq(s, 1, IF Len(s) < n THEN Len(s) ELSE n)

\* get_existing_hashes: the set of the user's stored hashes (at most
\* HashFetchLimit rows); the empty set when the request raises
get_existing_hashes(tbl, user, ok) ==
    IF ok
    THEN {r.hash : r \in SeqToSet(Take(SelectSeq2(tbl, user), HashFetchLimit))}
    ELSE {}

\* the store's uniqueness constraint on a user's transaction hashes: an
\* insert of a hash the user already holds raises "duplicate key value
\* violates unique constraint"
UniqueViolation(tbl, data) ==
    \E r \in SeqToSet(tbl) : r.user_id = data.user_id /\ r.hash = data.hash

\* one iteration of the loop of insert_transactions, the duplicate-key
\* exception filed under errors
InsertOneDupAsError(acc, t, user, fault) ==
    LET data == to_dict(t) @@ [user_id |-> user]
    IN  IF fault \/ UniqueViolation(acc.tbl, data)
        THEN [acc EXCEPT !.errors = @ + 1, !.outcomes = Append(@, "error")]
        ELSE [acc EXCEPT !.tbl = Append(@, data @@ [id |-> acc.next]),
                         !.next = @ + 1, !.success = @ + 1,
                         !.outcomes = Append(@, "inserted")]

\* one iteration with an upsert in place of the insert
InsertOneUpsert(acc, t, user, fault) ==
    LET data == to_dict(t) @@ [user_id |-> user]
        same == {i \in 1..Len(acc.tbl) : acc.tbl[i].user_id = user
                                          /\ acc.tbl[i].hash = data.hash}
    IN  IF fault
        THEN [acc EXCEPT !.errors = @ + 1, !.outcomes = Append(@, "error")]
        ELSE IF same # {}
        THEN [acc EXCEPT !.tbl = [i \in 1..Len(acc.tbl) |->
                                    IF i \in same THEN data @@ [id |-> acc.tbl[i].id]
                                    ELSE acc.tbl[i]],
                         !.success = @ + 1, !.outcomes = Append(@, "inserted")]
        ELSE [acc EXCEPT !.tbl = Append(@, data @@ [id |-> acc.next]),
                         !.next = @ + 1, !.success = @ + 1,
                         !.outcomes = Append(@, "inserted")]

\* one iteration of the loop of insert_transactions: `fault` is a store
\* failure other than the uniqueness constraint
InsertOne(acc, t, user, fault) ==
    LET data == to_dict(t) @@ [user_id |-> user]
    IN  IF fault
        THEN [acc EXCEPT !.errors = @ + 1, !.outcomes = Append(@, "error")]
        ELSE IF UniqueViolation(acc.tbl, data)
        THEN [acc EXCEPT !.skipped = @ + 1, !.outcomes = Append(@, "skipped")]
        ELSE [acc EXCEPT !.tbl = Append(@, data @@ [id |-> acc.next]),
                         !.next = @ + 1, !.success = @ + 1,
                         !.outcomes = Append(@, "inserted")]

RECURSIVE InsertLoop(_, _, _, _, _)
InsertLoop(acc, batch, user, faults, i) ==
    IF i > Len(batch) THEN acc
    ELSE InsertLoop(InsertOne(acc, batch[i], user, faults[i]), batch, user, faults, i + 1)

\* insert_transactions(transactions, user_id) on table `tbl`
insert_transactions(tbl, next, batch, user, faults) ==
    InsertLoop([tbl |-> tbl, next |-> next, success |-> 0, skipped |-> 0,
                errors |-> 0, outcomes |-> <<>>], batch, user, faults, 1)


(* Categories in the store *)

\* Category.to_dict plus data["user_id"] = user_id
CategoryRow(id, user, name, rules, color) ==
    [id |-> id, user_id |-> user, name |-> name, rules |-> rules, color |-> color]

\* get_category_by_name: the first row with this user and name; None when
\* there is none or when the request raises (the bare except)
get_category_by_name(tbl, name, user, ok) ==
    LET rows == {i \in 1..Len(tbl) : tbl[i].user_id = user /\ tbl[i].name = name}
    IN  IF ok /\ rows # {}
        THEN <<tbl[CHOOSE i \in rows : \A j \in rows : i <= j]>>
        ELSE None

\* the insert of create_category: `insertOk` is FALSE when the request
\* raises; under a uniqueness constraint on (user_id, name) it also raises
\* for a name the user already holds
CategoryInsertRaises(tbl, name, user, insertOk, constrained) ==
    \/ ~insertOk
    \/ (constrained /\ \E r \in SeqToSet(tbl) : r.user_id = user /\ r.name = name)

\* create_category after its lookup returned `existing`: [tbl, next, id]
create_category_insert(tbl, next, existing, category, user, insertOk, constrained) ==
    IF existing # None
    THEN [tbl |-> tbl, next |-> next, id |-> Some(existing[1].id)]
    ELSE IF CategoryInsertRaises(tbl, category.name, user, insertOk, constrained)
    THEN [tbl |-> tbl, next |-> next, id |-> None]
    ELSE [tbl |-> Append(tbl, CategoryRow(next, user, category.name, category.rules,
                                          category.color)),
          next |-> next + 1, id |-> Some(next)]

\* create_category(category, user_id) run without interruption
create_category(tbl, next, category, user, lookupOk, insertOk, constrained) ==
    create_category_insert(tbl, next,
                           get_category_by_name(tbl, category.name, user, lookupOk),
                           category, user, insertOk, constrained)

---------------------------------------------------------------------------
(* The upload page (views/upload.py) *)

\* UniversalParser._df_to_transactions, lines 250-257: a parsed row becomes
\* a Transaction whose hash is generated at once
ParsedTransaction(row) ==
    LET t == Transaction(row[1], row[2], row[3], row[4])
    IN  [t EXCEPT !.hash = Some(generate_hash(t))]

\* the legacy fingerprint of show_file_upload, lines 124-125
legacy_hash(t) ==
    Md5(DateStr(t.datum) \o "|" \o DecStr(t.bedrag) \o "|"
            \o OrEmpty(t.naam_tegenpartij) \o "|" \o OrEmpty(t.omschrijving))

\* the loop body without the two existing_hashes.add calls
FilterOneNoAdd(acc, t0) ==
    LET t == IF Truthy(t0.hash) THEN t0 ELSE [t0 EXCEPT !.hash = Some(generate_hash(t0))]
    IN  IF t.hash[1] \in acc.existing \/ legacy_hash(t) \in acc.existing
        THEN [acc EXCEPT !.duplicate_count = @ + 1]
        ELSE [acc EXCEPT !.unique = Append(@, t)]

\* one iteration of the duplicate filter of show_file_upload, lines 120-132
FilterOne(acc, t0) ==
    LET t == IF Truthy(t0.hash) THEN t0 ELSE [t0 EXCEPT !.hash = Some(generate_hash(t0))]
    IN  IF t.hash[1] \in acc.existing \/ legacy_hash(t) \in acc.existing
        THEN [acc EXCEPT !.duplicate_count = @ + 1]
        ELSE [acc EXCEPT !.unique = Append(@, t),
                         !.existing = @ \cup {t.hash[1], legacy_hash(t)}]

RECURSIVE FilterLoop(_, _, _)
FilterLoop(acc, raw, i) ==
    IF i > Len(raw) THEN acc ELSE FilterLoop(FilterOne(acc, raw[i]), raw, i + 1)

\* show_file_upload, lines 112-135
FilterDuplicates(raw, existing_hashes) ==
    FilterLoop([existing |-> existing_hashes, unique |-> <<>>, duplicate_count |-> 0],
               raw, 1)


---------------------------------------------------------------------------
(* Import specification: files are uploaded, filtered against the stored   *)
(* fingerprints and imported, for two users.                               *)

MaxRows == 2

MaxStore == 3

Date1 == [y |-> 2024, m |-> 3, d |-> 1]

Date2 == [y |-> 2024, m |-> 3, d |-> 2]

\* parsed rows (date, amount, counterparty, description) of uploaded files
RowPool ==
    {<<Date1, Dec(FALSE, 10000, 2), Some("Salaris BV"), Some("Maandloon")>>,
     <<Date2, Dec(TRUE, 4550, 2), Some("Delhaize"), None>>}

\* ParsedTransaction, tabulated over the pool
ParsedPool == [row \in RowPool |-> ParsedTransaction(row)]

ParseRows(rows) == [i \in 1..Len(rows) |-> ParsedPool[rows[i]]]

Files == UNION {[1..n -> RowPool] : n \in 1..MaxRows}

ImpInit == db = <<>> /\ nextId = 1 /\ pending = None /\ log = None

StoredHashes(tbl, user) == {r.hash : r \in SeqToSet(SelectSeq2(tbl, user))}

\* a run of show_file_upload with a file in the uploader, up to line 142;
\* `prior` records whether every row of the file was already stored
Upload(u, rows, fetchOk) ==
    LET raw  == ParseRows(rows)
        existing == get_existing_hashes(db, u, fetchOk)
        f    == FilterDuplicates(raw, existing)
        prior == \A i \in 1..Len(raw) : raw[i].hash[1] \in StoredHashes(db, u)
    IN  /\ pending' = Some([user |-> u, rows |-> rows, fetched |-> existing,
                            kept |-> f.unique,
                            duplicate_count |-> f.duplicate_count, prior |-> prior])
        /\ log' = IF f.unique = <<>>
                  THEN Some([user |-> u, rows |-> rows, prior |-> prior,
                             duplicate_count |-> f.duplicate_count,
                             outcomes |-> <<>>, faults |-> <<>>,
                             success |-> 0, skipped |-> 0, errors |-> 0])
                  ELSE None
        /\ UNCHANGED <<db, nextId>>

\* perform_import, line 438: insert_transactions on the transactions kept
\* by the last upload; faults[i] is a store failure on the i-th insert.
\* Lines 453-456 then clear the session.
Import(faults) ==
    /\ pending # None
    /\ pending[1].kept # <<>>
    /\ LET p   == pending[1]
           ins == insert_transactions(db, nextId, p.kept, p.user, faults)
       IN  /\ Len(ins.tbl) <= MaxStore
           /\ db' = ins.tbl
           /\ nextId' = ins.next
           /\ log' = Some([user |-> p.user, rows |-> p.rows, prior |-> p.prior,
                           duplicate_count |-> p.duplicate_count,
                           outcomes |-> ins.outcomes, faults |-> faults,
                           success |-> ins.success, skipped |-> ins.skipped,
                           errors |-> ins.errors])
           /\ pending' = None

DoUpload ==
    \E u \in Users, rows \in Files, fetchOk \in BOOLEAN :
        Upload(u, rows, fetchOk) /\ UNCHANGED OutsideImp

DoImport ==
    \E n \in 1..MaxRows : \E faults \in [1..n -> BOOLEAN] :
        /\ pending # None /\ n = Len(pending[1].kept)
        /\ Import(faults) /\ UNCHANGED OutsideImp

Init == HashIdle /\ MigIdle /\ CatIdle /\ CreateIdle /\ AnIdle /\ ParseIdle /\ ViewIdle /\ ImpInit

Next == DoUpload \/ DoImport

Spec == Init /\ [][Next]_vars

KthIndex(S, k) == CHOOSE i \in S : Cardinality({j \in S : j < i}) = k - 1

\* C2: the kept list is the subsequence, in file order, of the first
\* occurrence of each fingerprint that is not in the fetched set, and
\* duplicate_count is the batch size minus the number kept.
C2_FirstOccurrenceKept ==
    pending # None =>
        LET p   == pending[1]
            raw == ParseRows(p.rows)
            first == {i \in 1..Len(raw) :
                        /\ raw[i].hash[1] \notin p.fetched
                        /\ \A j \in 1..(i - 1) : raw[j].hash[1] # raw[i].hash[1]}
        IN  /\ Len(p.kept) = Cardinality(first)
            /\ \A k \in 1..Len(p.kept) : p.kept[k] = raw[KthIndex(first, k)]
            /\ p.duplicate_count = Len(raw) - Len(p.kept)

\* a batch whose second row repeats the first, nothing fetched: one kept
C2_Witness ==
    /\ pending # None
    /\ pending[1].fetched = {}
    /\ Len(pending[1].rows) = 2 /\ pending[1].rows[1] = pending[1].rows[2]
    /\ Len(pending[1].kept) = 1 /\ pending[1].duplicate_count = 1

---------------------------------------------------------------------------
(* migrate_transaction_hashes (database/operations.py, lines 463-528) *)

\* datetime.strptime(s, '%Y-%m-%d').date()
ParseIsoDate(s) == CHOOSE d \in Dates : DateStr(d) = s

\* Decimal(str(x)) for a float x: str gives an integer-valued float one
\* decimal ("100.0")
DecimalOfFloat(x) == IF x.scale = 0 THEN Dec(x.neg, x.coef * 10, 1) ELSE x

\* lines 493-499: the fingerprint recomputed from a stored row
FreshHash(row) ==
    generate_hash(Transaction(ParseIsoDate(row.datum), DecimalOfFloat(row.bedrag),
                              row.naam_tegenpartij, row.omschrijving))

DeleteById(tbl, id) == SelectSeq(tbl, LAMBDA r : r.id # id)

UpdateHash(tbl, id, h) ==
    [i \in 1..Len(tbl) |-> IF tbl[i].id = id THEN [tbl[i] EXCEPT !.hash = h] ELSE tbl[i]]

\* the uniqueness constraint, for an update of row `row` to hash h
UpdateViolation(tbl, row, h) ==
    \E r \in SeqToSet(tbl) : r.id # row.id /\ r.user_id = row.user_id /\ r.hash = h

\* one iteration of the loop, lines 486-520. resp is the store's answer to
\* the request of this iteration: "row" (done, the row returned), "empty"
\* (an update that returns no row) or "raise".
MigrateOne(acc, row, resp) ==
    LET new_hash == FreshHash(row)
    IN  IF new_hash \in acc.processed_hashes
        THEN IF resp = "raise"
             THEN [acc EXCEPT !.errors = @ + 1]
             ELSE [acc EXCEPT !.tbl = DeleteById(@, row.id),
                              !.duplicates_removed = @ + 1]
        ELSE IF resp = "raise" \/ (resp = "row" /\ UpdateViolation(acc.tbl, row, new_hash))
             THEN [acc EXCEPT !.errors = @ + 1]
             ELSE IF resp = "row"
             THEN [acc EXCEPT !.tbl = UpdateHash(@, row.id, new_hash),
                              !.updated_count = @ + 1,
                              !.processed_hashes = @ \cup {new_hash}]
             ELSE [acc EXCEPT !.tbl = DeleteById(@, row.id),
                              !.duplicates_removed = @ + 1]

RECURSIVE MigrateLoop(_, _, _, _)
MigrateLoop(acc, rows, resps, i) ==
    IF i > Len(rows) THEN acc
    ELSE MigrateLoop(MigrateOne(acc, rows[i], resps[i]), rows, resps, i + 1)

\* migrate_transaction_hashes(user_id) on table tbl
migrate_transaction_hashes(tbl, user, resps) ==
    MigrateLoop([tbl |-> tbl, processed_hashes |-> {}, updated_count |-> 0,
                 duplicates_removed |-> 0, errors |-> 0],
                SelectSeq2(tbl, user), resps, 1)

---------------------------------------------------------------------------
(* Re-hash specification: the maintenance pass run on stores that imports, *)
(* renamed counterparties and older fingerprint definitions leave behind.  *)

MaxMigRows == 3

\* stored fields (datum, bedrag, naam_tegenpartij, omschrijving)
MigFields ==
    {<<"2024-03-02", Dec(TRUE, 455, 1), Some("Delhaize"), None>>,
     <<"2024-03-01", Dec(FALSE, 100, 0), Some("Salaris BV"), Some("Maandloon")>>}

\* stored hashes: the fingerprints of the rows as they were parsed, and
\* fingerprints of counterparty names that were replaced before the insert
MigHashes ==
    {Md5("2024-03-02|-45.50|Delhaize|"), Md5("2024-03-02|-45.50|KBC|"),
     Md5("2024-03-01|100.00|Salaris BV|Maandloon")}

MigRow(id, user, f, h) ==
    [id |-> id, user_id |-> user, datum |-> f[1], bedrag |-> f[2],
     naam_tegenpartij |-> f[3], omschrijving |-> f[4], categorie_id |-> None,
     is_confirmed |-> FALSE, hash |-> h]

\* the store's constraint holds in every stored table
HashesUnique(tbl) ==
    \A i \in 1..Len(tbl), j \in 1..Len(tbl) :
        (i # j /\ tbl[i].user_id = tbl[j].user_id) => tbl[i].hash # tbl[j].hash

MigInit ==
    /\ HashIdle /\ CatIdle /\ CreateIdle /\ AnIdle /\ ParseIdle /\ ViewIdle
    /\ pending = None /\ log = None
    /\ \E n \in 1..MaxMigRows :
          \E u \in [1..n -> Users], f \in [1..n -> MigFields], h \in [1..n -> MigHashes] :
              /\ db = [i \in 1..n |-> MigRow(i, u[i], f[i], h[i])]
              /\ HashesUnique(db)
    /\ nextId = Len(db) + 1
    /\ mig = None

MigResponses == {"row", "empty", "raise"}

\* the "Duplicaten Opschonen" button: one pass for user u
Migrate(u, resps) ==
    /\ SelectSeq2(db, u) # <<>>
    /\ LET out == migrate_transaction_hashes(db, u, resps)
       IN  /\ db' = out.tbl
           /\ mig' = Some([user |-> u, fetched |-> SelectSeq2(db, u), resps |-> resps,
                           success |-> out.updated_count,
                           duplicates_removed |-> out.duplicates_removed,
                           errors |-> out.errors])
           /\ UNCHANGED nextId

DoMigrate ==
    \E u \in Users : \E n \in 1..MaxMigRows : \E resps \in [1..n -> MigResponses] :
        /\ n = Len(SelectSeq2(db, u))
        /\ Migrate(u, resps) /\ UNCHANGED OutsideMig

MigNext == DoMigrate

SpecMigrate == MigInit /\ [][MigNext]_vars

\* C4: after a pass that reports no errors, no two remaining records of the
\* user have the same fingerprint, the first processed record of each group
\* of colliding records is the one that remains, and updated +
\* duplicates_removed is the number of records fetched.
C4_MigrateKeepsFirst ==
    (mig # None /\ mig[1].errors = 0) =>
        LET m    == mig[1]
            rows == SelectSeq2(db, m.user)
        IN  /\ \A i \in 1..Len(rows), j \in 1..Len(rows) :
                  i # j => FreshHash(rows[i]) # FreshHash(rows[j])
            /\ \A i \in 1..Len(m.fetched) :
                  (\A j \in 1..(i - 1) : FreshHash(m.fetched[j]) # FreshHash(m.fetched[i]))
                      => \E r \in SeqToSet(rows) : r.id = m.fetched[i].id
            /\ m.success + m.duplicates_removed = Len(m.fetched)

---------------------------------------------------------------------------
(* Strings: str.lower() and the `in` test of Category.matches *)

UpperChars == "ABCDEFGHIJKLMNOPQRSTUVWXYZ"

LowerChars == "abcdefghijklmnopqrstuvwxyz"

LowerChar(c) ==
    IF \E k \in 1..Len(UpperChars) : SubSeq(UpperChars, k, k) = c
    THEN LET k == CHOOSE k \in 1..Len(UpperChars) : SubSeq(UpperChars, k, k) = c
         IN  SubSeq(LowerChars, k, k)
    ELSE c

\* str.lower(), as the sequence of the characters of the result
Lower(s) == [i \in 1..Len(s) |-> LowerChar(SubSeq(s, i, i))]

\* `sub in s` for two str given by their characters: '' is in every string
Contains(sub, s) ==
    \E i \in 1..(Len(s) - Len(sub) + 1) : SubSeq(s, i, i + Len(sub) - 1) = sub

---------------------------------------------------------------------------
(* models/category.py and config/settings.py *)

\* CategoryRule: an absent `contains` is the empty list and an absent
\* `condition` the empty string (each is falsy, like None)
TextRule(field, contains) == [field |-> field, contains |-> contains, condition |-> ""]

AmountRule(condition) == [field |-> "bedrag", contains |-> <<>>, condition |-> condition]

Category(id, user_id, name, rules, color) ==
    [id |-> id, user_id |-> user_id, name |-> name, rules |-> rules, color |-> color]

\* one category of DEFAULT_CATEGORIES, as built by CategorizationEngine.__init__
Default(name, rules, color) == Category(None, None, name, rules, color)

DEFAULT_CATEGORIES ==
    << Default("Investeren",
               <<TextRule("naam_tegenpartij",
                   <<"Saxo", "Bolero", "DeGiro", "Beleggen", "Aandelen", "Crypto",
                     "Investment", "Trading", "Stocks", "Bourse">>)>>, "#10b981"),
       Default("Eten & Drinken",
               <<TextRule("naam_tegenpartij",
                   <<"Delhaize", "Restaurant", "Albert Heijn", "Colruyt", "Carrefour",
                     "Aldi", "Lidl", "Jumbo", "Waitrose", "Tesco", "Uber Eats",
                     "Deliveroo", "Food", "Supermarket">>)>>, "#f59e0b"),
       Default("Transport",
               <<TextRule("naam_tegenpartij",
                   <<"NMBS", "De Lijn", "STIB", "MIVB", "Uber", "Taxi", "Shell", "Total",
                     "Parking", "Train", "SNCF", "NS", "Bolt", "Gas Station",
                     "Petrol">>)>>, "#06b6d4"),
       Default("Inkomen",
               <<TextRule("naam_tegenpartij",
                   <<"Salaris", "Loon", "Salary", "Income", "Wage", "Dividend",
                     "Salaire">>),
                 AmountRule("positive")>>, "#3b82f6"),
       Default("Vrije Tijd",
               <<TextRule("naam_tegenpartij",
                   <<"Cinema", "Theater", "Netflix", "Spotify", "Kinepolis", "UGC",
                     "Leisure", "Game", "Steam", "Disney+">>)>>, "#8b5cf6"),
       Default("Sport & Gezondheid",
               <<TextRule("naam_tegenpartij",
                   <<"Basic-Fit", "Fitness", "Gym", "Apotheek", "Pharmacy", "Health",
                     "Hospital", "Doctor", "Apotheke", "Pharmacie">>)>>, "#ef4444"),
       Default("Wonen",
               <<TextRule("naam_tegenpartij",
                   <<"Huur", "Electrabel", "Engie", "Proximus", "Telenet", "Water", "Gas",
                     "Elektriciteit", "Rent", "Utility", "Loyer", "Mieten",
                     "Electricity">>)>>, "#64748b"),
       Default("Kleding",
               <<TextRule("naam_tegenpartij",
                   <<"H&M", "Zara", "C&A", "Primark", "Bershka", "Mango", "Clothing",
                     "Fashion", "Zalando", "ASOS">>)>>, "#ec4899"),
       Default("Reizen",
               <<TextRule("naam_tegenpartij",
                   <<"Booking", "Airbnb", "Ryanair", "Brussels Airlines", "Hotel",
                     "Travel", "Flight", "Voyage", "Reise">>)>>, "#14b8a6"),
       Default("Overig", <<>>, "#9ca3af") >>

\* the text a rule is matched against (lines 42-46): '' for any other field
FieldValue(rule, t) ==
    IF rule.field = "naam_tegenpartij" THEN OrEmpty(t.naam_tegenpartij)
    ELSE IF rule.field = "omschrijving" THEN OrEmpty(t.omschrijving)
    ELSE ""

IsPositive(b) == ~b.neg /\ b.coef > 0

IsNegative(b) == b.neg /\ b.coef > 0

\* one turn of the loop of Category.matches: TRUE when it returns True
RuleMatches(rule, t) ==
    \/ /\ rule.contains # <<>>
       /\ \E k \in 1..Len(rule.contains) :
              Contains(Lower(rule.contains[k]), Lower(FieldValue(rule, t)))
    \/ /\ rule.condition # ""
       /\ \/ rule.condition = "positive" /\ IsPositive(t.bedrag)
          \/ rule.condition = "negative" /\ IsNegative(t.bedrag)

\* Category.matches
matches(category, t) ==
    /\ category.rules # <<>>
    /\ \E r \in 1..Len(category.rules) : RuleMatches(category.rules[r], t)

---------------------------------------------------------------------------
(* services/categorization.py *)

\* Category(**user_cat_dict): the fields of the model taken from a store row
CategoryOfDict(d) == Category(d.id, d.user_id, d.name, d.rules, d.color)

\* a slip that keeps the default's color when a default is overridden
MergeOneKeepColor(categories, user_cat_dict) ==
    LET user_cat == CategoryOfDict(user_cat_dict)
        found    == {idx \in 1..Len(categories) : categories[idx].name = user_cat.name}
    IN  IF found # {}
        THEN LET existing_idx == CHOOSE i \in found : \A j \in found : i <= j
             IN  [categories EXCEPT ![existing_idx] =
                     [user_cat EXCEPT !.color = categories[existing_idx].color]]
        ELSE Append(categories, user_cat)

\* one turn of the loop of _merge_user_categories (lines 46-60)
MergeOne(categories, user_cat_dict) ==
    LET user_cat == CategoryOfDict(user_cat_dict)
        found    == {idx \in 1..Len(categories) : categories[idx].name = user_cat.name}
    IN  IF found # {}
        THEN LET existing_idx == CHOOSE i \in found : \A j \in found : i <= j
             IN  [categories EXCEPT ![existing_idx] = user_cat]
        ELSE Append(categories, user_cat)

RECURSIVE MergeLoop(_, _, _)
MergeLoop(categories, user_categories, i) ==
    IF i > Len(user_categories) THEN categories
    ELSE MergeLoop(MergeOne(categories, user_categories[i]), user_categories, i + 1)

_merge_user_categories(categories, user_categories) ==
    MergeLoop(categories, user_categories, 1)

\* CategorizationEngine.__init__: self.categories
CategorizationEngine(user_categories) ==
    IF user_categories # <<>>
    THEN _merge_user_categories(DEFAULT_CATEGORIES, user_categories)
    ELSE DEFAULT_CATEGORIES

---------------------------------------------------------------------------
(* Categorization specifications: an engine is built from a list of the    *)
(* user's stored categories; categorize_transaction is called on a         *)
(* transaction (SpecEngine), categorize_batch on a list (SpecBatch).       *)

MaxUserCats == 2

MaxTx == 2

MaxCatCalls == 2

\* rows of the categories table, as get_categories returns them; two of them
\* carry the name of a default and two others share one new name
UserCategoryPool ==
    { [id |-> Some("c1"), user_id |-> Some("u1"), name |-> "Wonen",
       rules |-> <<TextRule("omschrijving", <<"Huur">>)>>, color |-> "#111111"],
      [id |-> Some("c2"), user_id |-> Some("u1"), name |-> "Abonnementen",
       rules |-> <<TextRule("naam_tegenpartij", <<"netflix">>),
                   TextRule("omschrijving", <<"netflix">>)>>, color |-> "#222222"],
      [id |-> Some("c3"), user_id |-> Some("u1"), name |-> "Inkomen",
       rules |-> <<>>, color |-> "#333333"],
      [id |-> Some("c4"), user_id |-> Some("u1"), name |-> "Uitgaven",
       rules |-> <<AmountRule("negative")>>, color |-> "#444444"],
      [id |-> Some("c5"), user_id |-> Some("u1"), name |-> "Abonnementen",
       rules |-> <<TextRule("omschrijving", <<"abonnement">>)>>, color |-> "#555555"] }

UserCategoryLists == UNION {[1..n -> UserCategoryPool] : n \in 0..MaxUserCats}

\* counterparty, description and amount of the transactions of the model
CatShapes ==
    { <<Some("Delhaize Gent"), None, Dec(TRUE, 4550, 2)>>,
      <<Some("DELHAIZE"), Some("terugbetaling"), Dec(FALSE, 10000, 2)>>,
      <<Some("Werkgever"), Some("Salaris maart"), Dec(FALSE, 10000, 2)>>,
      <<None, Some("huur maart"), Dec(TRUE, 4550, 2)>>,
      <<Some("Onbekend"), None, Dec(FALSE, 0, 0)>>,
      <<Some("Netflix"), Some("NETFLIX Abonnement"), Dec(TRUE, 4550, 2)>> }

\* no category, the empty name, the fallback, and a confirmed category
CatLabels == {None, Some(""), Some("Overig"), Some("Wonen")}

CatTransactions ==
    { [Transaction(Date1, k[3], k[1], k[2]) EXCEPT !.categorie = c] :
          k \in CatShapes, c \in CatLabels }

\* Category.matches reads the category and the counterparty, description
\* and amount of the transaction only; its values on the categories and
\* transactions of the model are computed once
EngineCategories ==
    {c : c \in SeqToSet(DEFAULT_CATEGORIES) \cup {CategoryOfDict(d) : d \in UserCategoryPool}}

MatchKey(t) == <<t.naam_tegenpartij, t.omschrijving, t.bedrag>>

MatchesTable ==
    [c \in EngineCategories |->
        [k \in CatShapes |-> matches(c, Transaction(Date1, k[3], k[1], k[2]))]]

Matches(category, t) ==
    IF category \in EngineCategories /\ MatchKey(t) \in CatShapes
    THEN MatchesTable[category][MatchKey(t)]
    ELSE matches(category, t)

\* a slip that keeps looking and returns the last match
RECURSIVE LastMatchLoop(_, _, _, _)
LastMatchLoop(categories, t, i, found) ==
    IF i > Len(categories) THEN found
    ELSE LastMatchLoop(categories, t, i + 1,
                       IF Matches(categories[i], t) THEN categories[i].name ELSE found)

categorize_last_match(categories, t) == LastMatchLoop(categories, t, 1, "Overig")

RECURSIVE CategorizeLoop(_, _, _)
CategorizeLoop(categories, t, i) ==
    IF i > Len(categories) THEN "Overig"
    ELSE IF Matches(categories[i], t) THEN categories[i].name
    ELSE CategorizeLoop(categories, t, i + 1)

\* CategorizationEngine.categorize_transaction
categorize_transaction(categories, t) == CategorizeLoop(categories, t, 1)

\* a slip that categorizes every transaction of the list
categorize_batch_all(categories, transactions) ==
    [i \in 1..Len(transactions) |->
        [transactions[i] EXCEPT
            !.categorie = Some(categorize_transaction(categories, transactions[i]))]]

\* CategorizationEngine.categorize_batch: the list after the call
categorize_batch(categories, transactions) ==
    [i \in 1..Len(transactions) |->
        IF ~Truthy(transactions[i].categorie) \/ transactions[i].categorie = Some("Overig")
        THEN [transactions[i] EXCEPT
                 !.categorie = Some(categorize_transaction(categories, transactions[i]))]
        ELSE transactions[i]]

\* the transactions of the lists given to categorize_batch
BatchTransactions ==
    {t \in CatTransactions :
        t.naam_tegenpartij \in {Some("Delhaize Gent"), Some("Werkgever"), None}}

\* cat_engine = CategorizationEngine(user_categories)
NewEngine(user_categories) ==
    /\ engine = None
    /\ engine' = Some([user_categories |-> user_categories,
                       categories |-> CategorizationEngine(user_categories)])
    /\ UNCHANGED <<txs, before, results>>

\* cat_engine.categorize_transaction(txs[i])
CallCategorize(i) ==
    /\ engine # None
    /\ Len(results) < MaxCatCalls
    /\ results' = Append(results,
           [i |-> i, name |-> categorize_transaction(engine[1].categories, txs[i])])
    /\ UNCHANGED <<engine, txs, before>>

\* cat_engine.categorize_batch(txs); `before` keeps the list as it was
CallCategorizeBatch ==
    /\ engine # None
    /\ txs' = categorize_batch(engine[1].categories, txs)
    /\ before' = Some(txs)
    /\ UNCHANGED <<engine, results>>

DoNewEngine == \E uc \in UserCategoryLists : NewEngine(uc) /\ UNCHANGED OutsideCat

DoCategorize == \E i \in 1..Len(txs) : CallCategorize(i) /\ UNCHANGED OutsideCat

DoCategorizeBatch == CallCategorizeBatch /\ UNCHANGED OutsideCat

\* an engine and one transaction, categorized up to MaxCatCalls times
EngineInit ==
    /\ HashIdle /\ ImpIdle /\ MigIdle /\ CreateIdle /\ AnIdle /\ ParseIdle /\ ViewIdle
    /\ engine = None
    /\ txs \in [1..1 -> CatTransactions]
    /\ before = None
    /\ results = <<>>

EngineNext == DoNewEngine \/ DoCategorize

SpecEngine == EngineInit /\ [][EngineNext]_vars

\* an engine and a list of up to MaxTx transactions given to categorize_batch
BatchInit ==
    /\ HashIdle /\ ImpIdle /\ MigIdle /\ CreateIdle /\ AnIdle /\ ParseIdle /\ ViewIdle
    /\ engine = None
    /\ txs \in UNION {[1..n -> BatchTransactions] : n \in 1..MaxTx}
    /\ before = None
    /\ results = <<>>

BatchNext == DoNewEngine \/ DoCategorizeBatch

SpecBatch == BatchInit /\ [][BatchNext]_vars

\* the positions of the categories that match t
MatchingIndexes(categories, t) ==
    {i \in 1..Len(categories) : Matches(categories[i], t)}

\* C7: every value categorize_transaction returned is the name of the first
\* category of the engine's merged list whose rules match the transaction,
\* or 'Overig' when no category matches, and all calls on one transaction
\* returned the same value.
C7_FirstMatchWins ==
    engine # None =>
        \A k \in 1..Len(results) :
            LET r  == results[k]
                cs == engine[1].categories
                m  == MatchingIndexes(cs, txs[r.i])
            IN  /\ m # {} => \E i \in m : (\A j \in m : i <= j) /\ r.name = cs[i].name
                /\ m = {} => r.name = "Overig"
                /\ \A l \in 1..Len(results) : results[l].i = r.i => results[l].name = r.name

\* a transaction that matches two categories with different names was
\* categorized twice, under an engine that holds user categories
C7_Witness ==
    /\ engine # None
    /\ Len(engine[1].user_categories) = MaxUserCats
    /\ \E k \in 1..Len(results), l \in 1..Len(results) :
          /\ k # l /\ results[k].i = results[l].i
          /\ LET cs == engine[1].categories
                 m  == MatchingIndexes(cs, txs[results[k].i])
             IN  \E i \in m, j \in m : cs[i].name # cs[j].name

DefaultNames == {DEFAULT_CATEGORIES[i].name : i \in 1..Len(DEFAULT_CATEGORIES)}

DistinctNames(user_categories) ==
    \A i \in 1..Len(user_categories), j \in 1..Len(user_categories) :
        i # j => user_categories[i].name # user_categories[j].name

NewNamed(user_categories) ==
    SelectSeq(user_categories, LAMBDA d : d.name \notin DefaultNames)

IsConfirmedLabel(c) == Truthy(c) /\ c # Some("Overig")

\* C10: after categorize_batch every transaction has its fields as before,
\* the category excepted, and a transaction whose category was set and was
\* not 'Overig' has its category as before.
C10_BatchFrame ==
    before # None =>
        /\ Len(txs) = Len(before[1])
        /\ \A i \in 1..Len(txs) :
              /\ [txs[i] EXCEPT !.categorie = before[1][i].categorie] = before[1][i]
              /\ IsConfirmedLabel(before[1][i].categorie)
                    => txs[i].categorie = before[1][i].categorie

\* a batch that kept a confirmed category the rules would not have given
\* and gave a category to a transaction that had none
C10_Witness ==
    /\ before # None /\ engine # None
    /\ \E i \in 1..Len(txs), j \in 1..Len(txs) :
          /\ IsConfirmedLabel(before[1][i].categorie)
          /\ categorize_transaction(engine[1].categories, txs[i]) # txs[i].categorie[1]
          /\ ~Truthy(before[1][j].categorie)
          /\ txs[j].categorie # before[1][j].categorie

---------------------------------------------------------------------------
(* Category creation specification: sessions call create_category; the     *)
(* lookup request and the insert request of a call are separate requests   *)
(* to the store, and the requests of other sessions may come in between.   *)
(* Whether the categories table has a uniqueness constraint on             *)
(* (user_id, name) is fixed by the schema, which the sources do not hold:  *)
(* both schemas are considered.                                            *)

MaxCreates == 2

Sessions == {1, 2}

\* the categories perform_import creates: "Overig" and an approved one
CreatePool ==
    { Category(None, None, "Overig", <<>>, "#9ca3af"),
      Category(None, None, "Hobby",
               <<TextRule("naam_tegenpartij", <<"Hobby">>),
                 TextRule("omschrijving", <<"Hobby">>)>>, "#222222") }

SessionIdle ==
    [pc |-> "idle", user |-> "", category |-> None, existing |-> None,
     existed |-> None, inserted |-> FALSE, ret |-> None, calls |-> 0]

CreateInit ==
    /\ HashIdle /\ ImpIdle /\ MigIdle /\ CatIdle /\ AnIdle /\ ParseIdle /\ ViewIdle
    /\ cats = <<>>
    /\ catNextId = 1
    /\ catConstraint \in BOOLEAN
    /\ sess = [s \in Sessions |-> SessionIdle]

\* the id of the category with this user and name, when there is one
HeldId(tbl, name, user) ==
    LET row == get_category_by_name(tbl, name, user, TRUE)
    IN  IF row = None THEN None ELSE Some(row[1].id)

\* db_ops.create_category(category, user_id) is entered; `existed` keeps
\* the id the store held for the name at that moment
BeginCreate(s, u, category) ==
    /\ sess[s].pc \in {"idle", "done"}
    /\ sess[s].calls < MaxCreates
    /\ sess' = [sess EXCEPT ![s] =
           [pc |-> "lookup", user |-> u, category |-> Some(category),
            existing |-> None, existed |-> HeldId(cats, category.name, u),
            inserted |-> FALSE, ret |-> None, calls |-> @.calls + 1]]
    /\ UNCHANGED <<cats, catNextId, catConstraint>>

\* lines 326-329: the lookup; the call returns the id of the row found
LookupStep(s, lookupOk) ==
    /\ sess[s].pc = "lookup"
    /\ LET existing == get_category_by_name(cats, sess[s].category[1].name,
                                            sess[s].user, lookupOk)
       IN  sess' = [sess EXCEPT ![s] =
               IF existing # None
               THEN [@ EXCEPT !.pc = "done", !.existing = existing,
                              !.ret = Some(existing[1].id)]
               ELSE [@ EXCEPT !.pc = "insert"]]
    /\ UNCHANGED <<cats, catNextId, catConstraint>>

\* lines 331-339: the insert
InsertStep(s, insertOk) ==
    /\ sess[s].pc = "insert"
    /\ LET out == create_category_insert(cats, catNextId, None, sess[s].category[1],
                                         sess[s].user, insertOk, catConstraint)
       IN  /\ cats' = out.tbl
           /\ catNextId' = out.next
           /\ sess' = [sess EXCEPT ![s] =
                  [@ EXCEPT !.pc = "done", !.ret = out.id,
                            !.inserted = (out.tbl # cats)]]
    /\ UNCHANGED catConstraint

DoBeginCreate ==
    \E s \in Sessions, u \in Users, c \in CreatePool :
        BeginCreate(s, u, c) /\ UNCHANGED OutsideCreate

DoLookupStep ==
    \E s \in Sessions, ok \in BOOLEAN : LookupStep(s, ok) /\ UNCHANGED OutsideCreate

DoInsertStep ==
    \E s \in Sessions, ok \in BOOLEAN : InsertStep(s, ok) /\ UNCHANGED OutsideCreate

CreateNext == DoBeginCreate \/ DoLookupStep \/ DoInsertStep

SpecCreate == CreateInit /\ [][CreateNext]_vars

\* C9: the store never holds two categories with the same user and name,
\* and a create_category call for a name the user held when the call began
\* returns the id of the category held and inserts nothing.
C9_CategoryNamesUnique ==
    /\ \A i \in 1..Len(cats), j \in 1..Len(cats) :
          (i # j /\ cats[i].user_id = cats[j].user_id) => cats[i].name # cats[j].name
    /\ \A s \in Sessions :
          (sess[s].pc = "done" /\ sess[s].existed # None)
              => (sess[s].ret = sess[s].existed /\ ~sess[s].inserted)

---------------------------------------------------------------------------
(* Learning from a correction (services/categorization.py, 127-158)        *)

IsSpace(c) == c \in {" ", "\t", "\n", "\r"}

\* str.split(): the maximal runs of non-whitespace characters, in order
split(s) ==
    LET ch(i)  == SubSeq(s, i, i)
        starts == {i \in 1..Len(s) : ~IsSpace(ch(i)) /\ (i = 1 \/ IsSpace(ch(i - 1)))}
        end(i) == CHOOSE j \in i..Len(s) :
                      /\ \A k \in i..j : ~IsSpace(ch(k))
                      /\ (j = Len(s) \/ IsSpace(ch(j + 1)))
    IN  [k \in 1..Cardinality(starts) |->
            LET i == KthIndex(starts, k) IN SubSeq(s, i, end(i))]

\* a slip that drops the [:3] slice
learn_all_words(categories, t, correct_category) ==
    [ret |-> [category |-> correct_category,
              rule |-> IF Truthy(t.naam_tegenpartij)
                       THEN Some(TextRule("naam_tegenpartij", <<t.naam_tegenpartij[1]>>))
                       ELSE IF Truthy(t.omschrijving)
                       THEN Some(TextRule("omschrijving", split(t.omschrijving[1])))
                       ELSE None],
     categories |-> categories, transaction |-> t]

\* CategorizationEngine.learn_from_correction: the dict returned, and the
\* engine's categories and the transaction as the call leaves them
learn_from_correction(categories, t, correct_category) ==
    [ret |-> [category |-> correct_category,
              rule |-> IF Truthy(t.naam_tegenpartij)
                       THEN Some(TextRule("naam_tegenpartij", <<t.naam_tegenpartij[1]>>))
                       ELSE IF Truthy(t.omschrijving)
                       THEN Some(TextRule("omschrijving", Take(split(t.omschrijving[1]), 3)))
                       ELSE None],
     categories |-> categories, transaction |-> t]

MaxLearnCalls == 2

\* counterparties and descriptions: absent, empty, blank, and with more
\* tokens than three
LearnTransactions ==
    { Transaction(Date1, Dec(TRUE, 4550, 2), n, o) :
        n \in {None, Some(""), Some("Delhaize Gent")},
        o \in {None, Some(""), Some("   "), Some("huur maart"),
               Some("  betaling via  app mobiel\t2024 ")} }

LearnInit ==
    /\ HashIdle /\ ImpIdle /\ MigIdle /\ CreateIdle /\ AnIdle /\ ParseIdle /\ ViewIdle
    /\ engine = None
    /\ txs \in [1..1 -> LearnTransactions]
    /\ before = None
    /\ results = <<>>

\* cat_engine.learn_from_correction(txs[i], correct_category)
CallLearn(i, correct_category) ==
    /\ engine # None
    /\ Len(results) < MaxLearnCalls
    /\ LET out == learn_from_correction(engine[1].categories, txs[i], correct_category)
       IN  /\ results' = Append(results, [i |-> i, category |-> correct_category,
                                          ret |-> out.ret])
           /\ engine' = Some([engine[1] EXCEPT !.categories = out.categories])
           /\ txs' = [txs EXCEPT ![i] = out.transaction]
    /\ UNCHANGED before

DoLearn ==
    \E i \in 1..Len(txs), c \in {"Wonen", "Abonnementen"} :
        CallLearn(i, c) /\ UNCHANGED OutsideCat

LearnNext == DoNewEngine \/ DoLearn

SpecLearn == LearnInit /\ [][LearnNext]_vars

\* C11: every learn_from_correction call leaves the engine and the
\* transaction as they were and returns the corrected category with: a
\* counterparty rule holding exactly the counterparty when that is
\* non-empty; otherwise, when the description is non-empty, a description
\* rule holding its first three whitespace-separated tokens; otherwise no
\* rule.
C11_LearnFromCorrection ==
    [][results' # results =>
          LET r      == results'[Len(results')]
              t      == txs[r.i]
              tokens == IF t.omschrijving = None THEN <<>> ELSE split(t.omschrijving[1])
          IN  /\ engine' = engine /\ txs' = txs
              /\ r.ret.category = r.category
              /\ IF t.naam_tegenpartij \notin {None, Some("")}
                 THEN r.ret.rule = Some([field |-> "naam_tegenpartij",
                                         contains |-> <<t.naam_tegenpartij[1]>>,
                                         condition |-> ""])
                 ELSE IF t.omschrijving \notin {None, Some("")}
                 THEN /\ r.ret.rule # None
                      /\ r.ret.rule[1].field = "omschrijving"
                      /\ Len(r.ret.rule[1].contains) = IF Len(tokens) < 3 THEN Len(tokens) ELSE 3
                      /\ \A k \in 1..Len(r.ret.rule[1].contains) :
                            r.ret.rule[1].contains[k] = tokens[k]
                 ELSE r.ret.rule = None]_vars

\* a correction of a transaction without counterparty whose description
\* has five tokens: the rule holds the first three
C11_Witness ==
    /\ results # <<>>
    /\ txs[1].naam_tegenpartij = None
    /\ txs[1].omschrijving # None
    /\ Len(split(OrEmpty(txs[1].omschrijving))) = 5
    /\ results[1].ret.rule = Some(TextRule("omschrijving", <<"betaling", "via", "app">>))

---------------------------------------------------------------------------
(* Analytics (services/analytics.py).  Amounts are whole cents: the sums    *)
(* are exact, the rounding of the float arithmetic is left out.  A          *)
(* percentage is the fraction num/den.                                      *)

RECURSIVE Sum(_)
\* Series.sum()
Sum(rows) == IF rows = <<>> THEN 0 ELSE rows[1].bedrag + Sum(Tail(rows))

Abs(n) == IF n < 0 THEN -n ELSE n

Ratio(num, den) == [num |-> num, den |-> den]

\* str.strip() of a category name
Strip(s) ==
    LET keep == {i \in 1..Len(s) : ~IsSpace(SubSeq(s, i, i))}
    IN  IF keep = {} THEN ""
        ELSE SubSeq(s, CHOOSE i \in keep : \A j \in keep : i <= j,
                       CHOOSE i \in keep : \A j \in keep : j <= i)

NoCache == [income |-> None, expenses |-> None, investment_pct |-> None, yoy |-> None]

\* Analytics.__init__: the frame with normalized category names and the
\* year column; nothing cached
Analytics(transactions) ==
    [df |-> [i \in 1..Len(transactions) |->
                [datum |-> transactions[i].datum,
                 bedrag |-> transactions[i].bedrag,
                 categorie |-> IF transactions[i].categorie = None THEN "Overig"
                               ELSE Strip(transactions[i].categorie[1]),
                 year |-> transactions[i].datum.y]],
     cache |-> NoCache, calls |-> 0]

InCategory(df, name) == SelectSeq(df, LAMBDA r : r.categorie = name)

get_net_balance(a) == IF a.df = <<>> THEN 0 ELSE Sum(a.df)

\* the lru_cache of a method: the stored value when there is one, else the
\* computed value, which is stored
Cached(a, m, value) ==
    IF a.cache[m] # None THEN [ret |-> a.cache[m][1], self |-> a]
    ELSE [ret |-> value, self |-> [a EXCEPT !.cache[m] = Some(value)]]

get_total_income(a) ==
    Cached(a, "income", IF a.df = <<>> THEN 0 ELSE Sum(InCategory(a.df, "Inkomen")))

get_total_expenses(a) ==
    IF a.cache.expenses # None THEN [ret |-> a.cache.expenses[1], self |-> a]
    ELSE LET inc == get_total_income(a)
         IN  Cached(inc.self, "expenses", inc.ret - get_net_balance(inc.self))

get_category_spending(a, category_name) ==
    LET net_val == Sum(InCategory(a.df, category_name))
    IN  IF a.df = <<>> THEN 0 ELSE IF net_val < 0 THEN Abs(net_val) ELSE 0

get_investment_percentage(a) ==
    IF a.cache.investment_pct # None
    THEN [ret |-> a.cache.investment_pct[1], self |-> a]
    ELSE LET inc == get_total_income(a)
         IN  Cached(inc.self, "investment_pct",
                    IF inc.ret = 0 \/ a.df = <<>> THEN Ratio(0, 1)
                    ELSE Ratio(Abs(Sum(InCategory(a.df, "Investeren"))) * 100, inc.ret))

\* the body of the loop of get_year_over_year_comparison for one group
YearRow(group) ==
    LET income   == Sum(SelectSeq(group, LAMBDA r : r.bedrag > 0))
        expenses == Abs(Sum(SelectSeq(group, LAMBDA r : r.bedrag < 0)))
    IN  [income |-> income, expenses |-> expenses, net |-> income - expenses,
         investment_pct |-> IF income > 0
                            THEN Ratio(Abs(Sum(InCategory(group, "Investeren"))) * 100, income)
                            ELSE Ratio(0, 1)]

get_year_over_year_comparison(a) ==
    Cached(a, "yoy",
           [year \in {a.df[i].year : i \in 1..Len(a.df)} |->
               YearRow(SelectSeq(a.df, LAMBDA r : r.year = year))])

_clear_caches(a) == [a EXCEPT !.cache = NoCache]

DateLeq(d1, d2) == <<d1.y, d1.m, d1.d>> = <<d2.y, d2.m, d2.d>>
                   \/ d1.y < d2.y
                   \/ (d1.y = d2.y /\ d1.m < d2.m)
                   \/ (d1.y = d2.y /\ d1.m = d2.m /\ d1.d < d2.d)

\* a slip that keeps the caches over a filter
filter_by_categories_stale(a, categories) ==
    IF a.df # <<>> /\ categories # <<>>
    THEN [a EXCEPT !.df = SelectSeq(a.df, LAMBDA r : r.categorie \in SeqToSet(categories))]
    ELSE a

filter_by_categories(a, categories) ==
    IF a.df # <<>> /\ categories # <<>>
    THEN _clear_caches([a EXCEPT !.df =
             SelectSeq(a.df, LAMBDA r : r.categorie \in SeqToSet(categories))])
    ELSE a

filter_by_date_range(a, start_date, end_date) ==
    IF a.df # <<>>
    THEN _clear_caches([a EXCEPT !.df =
             SelectSeq(a.df, LAMBDA r : DateLeq(start_date, r.datum) /\ DateLeq(r.datum, end_date))])
    ELSE a

MaxAnRows == 2

MaxAnCalls == 3

\* stored rows as the dashboard hands them over: two years, income, an
\* expense category with an unstripped name and with a refund, an
\* investment
AnRowPool ==
    LET row(y, m, d, bedrag, categorie) ==
            [datum |-> [y |-> y, m |-> m, d |-> d], bedrag |-> bedrag, categorie |-> categorie]
    IN  { row(2024, 1, 10, 250000, Some("Inkomen")),
          row(2024, 2, 3, -5000, Some(" Boodschappen ")),
          row(2024, 2, 20, 2000, Some("Boodschappen")),
          row(2023, 12, 1, -50000, Some("Investeren")),
          row(2023, 12, 15, -1000, None) }

\* analytics = Analytics(dashboard_transactions)
AnInit ==
    /\ HashIdle /\ ImpIdle /\ MigIdle /\ CatIdle /\ CreateIdle /\ ParseIdle /\ ViewIdle
    /\ \E n \in 0..MaxAnRows : \E transactions \in [1..n -> AnRowPool] :
           an = Some(Analytics(transactions))
    /\ reads = <<>>

\* the rows of the budget table, as a category list is shown
BudgetRow(a, cat) ==
    LET cat_name   == Strip(cat.name)
        pct        == IF cat.percentage = None THEN 0 ELSE cat.percentage[1]
        budget_amt == Ratio(get_total_income(a).ret * pct, 100)
        spent_amt  == get_category_spending(a, cat_name)
    IN  [id |-> cat.id, Categorie |-> cat.name, Verdeling_Raw |-> pct,
         Budget |-> budget_amt, Uitgegeven |-> spent_amt,
         Overschot |-> Ratio(budget_amt.num - spent_amt * 100, 100)]

\* show_budget_comparison: budget_data, sorted with Investeren last
budget_data(a, categories) ==
    LET skipped(cat) == Strip(cat.name) \in {"Inkomen", "Overig"}
        rows == [i \in 1..Len(SelectSeq(categories, LAMBDA c : ~skipped(c))) |->
                    BudgetRow(a, SelectSeq(categories, LAMBDA c : ~skipped(c))[i])]
    IN  SelectSeq(rows, LAMBDA r : r.Categorie # "Investeren")
        \o SelectSeq(rows, LAMBDA r : r.Categorie = "Investeren")

\* the user's categories with their budget percentage
BudgetCategories ==
    LET cat(id, name, percentage) == [id |-> id, name |-> name, percentage |-> percentage]
    IN  { <<cat("c1", "Boodschappen", Some(30)), cat("c2", "Wonen", Some(0))>>,
          <<cat("c5", "Investeren", Some(20)), cat("c1", "Boodschappen ", Some(30))>>,
          <<cat("c3", "Inkomen", None), cat("c4", "Overig", Some(10))>> }

\* one call on the instance: `out` is the instance after it, `shown` what
\* the call put on the page
AnCall(name, out, shown) ==
    /\ an # None
    /\ an[1].calls < MaxAnCalls
    /\ an' = Some([out EXCEPT !.calls = an[1].calls + 1])
    /\ reads' = Append(reads, [call |-> name, shown |-> shown])

DoShowBudgetComparison ==
    /\ \E categories \in BudgetCategories :
          AnCall("show_budget_comparison", get_total_income(an[1]).self,
                 [categories |-> categories, rows |-> budget_data(an[1], categories)])
    /\ UNCHANGED OutsideAn

DoFilterByDateRange ==
    /\ \E start_date \in {[y |-> 2024, m |-> 1, d |-> 1]}, end_date \in {[y |-> 2024, m |-> 12, d |-> 31]} :
          AnCall("filter_by_date_range", filter_by_date_range(an[1], start_date, end_date), <<>>)
    /\ UNCHANGED OutsideAn

DoFilterByCategories ==
    /\ \E categories \in {<<>>, <<"Boodschappen", "Overig">>} :
          AnCall("filter_by_categories", filter_by_categories(an[1], categories), <<>>)
    /\ UNCHANGED OutsideAn

DoGetTotalIncome ==
    AnCall("get_total_income", get_total_income(an[1]).self, <<>>) /\ UNCHANGED OutsideAn

DoGetTotalExpenses ==
    AnCall("get_total_expenses", get_total_expenses(an[1]).self, <<>>) /\ UNCHANGED OutsideAn

DoGetNetBalance ==
    AnCall("get_net_balance", an[1], <<>>) /\ UNCHANGED OutsideAn

DoGetInvestmentPercentage ==
    AnCall("get_investment_percentage", get_investment_percentage(an[1]).self, <<>>)
    /\ UNCHANGED OutsideAn

DoGetYearOverYear ==
    AnCall("get_year_over_year_comparison", get_year_over_year_comparison(an[1]).self, <<>>)
    /\ UNCHANGED OutsideAn

AnNext ==
    \/ DoFilterByDateRange \/ DoFilterByCategories
    \/ DoGetTotalIncome \/ DoGetTotalExpenses \/ DoGetNetBalance
    \/ DoGetInvestmentPercentage \/ DoGetYearOverYear \/ DoShowBudgetComparison

SpecAnalytics == AnInit /\ [][AnNext]_vars

C13_YearOverYearMatchesTotals ==
    an # None =>
        LET yoy == get_year_over_year_comparison(an[1]).ret
        IN  \A year \in DOMAIN yoy :
                LET only == [df |-> SelectSeq(an[1].df, LAMBDA r : r.year = year),
                             cache |-> NoCache, calls |-> 0]
                    pct  == get_investment_percentage(only).ret
                IN  /\ yoy[year].income = get_total_income(only).ret
                    /\ yoy[year].expenses = get_total_expenses(only).ret
                    /\ yoy[year].net = get_net_balance(only)
                    /\ yoy[year].investment_pct.num * pct.den
                           = pct.num * yoy[year].investment_pct.den

\* C14: every budget table shown has exactly one row for each category of
\* the list with a nonzero percentage that is not the income category, and
\* no other row; the row's budget is total income * pct / 100, its spent
\* amount the category's spending, its surplus budget - spent.
C14_BudgetRows ==
    [][(reads' # reads /\ reads'[Len(reads')].call = "show_budget_comparison") =>
          LET shown  == reads'[Len(reads')].shown
              pct(c) == IF c.percentage = None THEN 0 ELSE c.percentage[1]
              wanted == SelectSeq(shown.categories,
                                  LAMBDA c : pct(c) # 0 /\ Strip(c.name) # "Inkomen")
              income == get_total_income(an[1]).ret
          IN  /\ Len(shown.rows) = Len(wanted)
              /\ \A c \in SeqToSet(wanted) :
                    \E i \in 1..Len(shown.rows) :
                        /\ shown.rows[i].id = c.id
                        /\ shown.rows[i].Budget.num * 100
                               = income * pct(c) * shown.rows[i].Budget.den
                        /\ shown.rows[i].Uitgegeven
                               = get_category_spending(an[1], Strip(c.name))
                        /\ shown.rows[i].Overschot.num * 100
                               = (income * pct(c) - 100 * shown.rows[i].Uitgegeven)
                                 * shown.rows[i].Overschot.den]_vars

---------------------------------------------------------------------------
(* Cells of an uploaded table and the amount parsers                        *)
(* (services/universal_parser.py, services/parsers/base_parser.py).         *)
(* A str is handled as the sequence of its characters.  A call returns      *)
(* [raised, val]: an exception that leaves the function, or the value       *)
(* returned (None or Some(..)).                                             *)

Chars(s) == [i \in 1..Len(s) |-> SubSeq(s, i, i)]

\* the cells pandas hands over: NaN, a str, a number, a date
Cell(kind, s, n, d) == [kind |-> kind, s |-> s, n |-> n, d |-> d]

NaN == Cell("nan", "", Dec(FALSE, 0, 0), [y |-> 1, m |-> 1, d |-> 1])

Str(s) == Cell("str", s, Dec(FALSE, 0, 0), [y |-> 1, m |-> 1, d |-> 1])

Num(n) == Cell("num", DecStr(n), n, [y |-> 1, m |-> 1, d |-> 1])

Returned(val) == [raised |-> FALSE, val |-> val]

Raised == [raised |-> TRUE, val |-> None]

IsDigit(c) == c \in {"0", "1", "2", "3", "4", "5", "6", "7", "8", "9"}

RECURSIVE ToNat(_)
\* int() of a sequence of digits
ToNat(cs) ==
    IF cs = <<>> THEN 0
    ELSE ToNat(SubSeq(cs, 1, Len(cs) - 1)) * 10
         + (CHOOSE v \in 0..9 : ToString(v) = cs[Len(cs)])

RECURSIVE Replace(_, _, _)
\* str.replace(old, new)
Replace(cs, old, new) ==
    IF Len(cs) < Len(old) THEN cs
    ELSE IF SubSeq(cs, 1, Len(old)) = old
    THEN new \o Replace(SubSeq(cs, Len(old) + 1, Len(cs)), old, new)
    ELSE <<cs[1]>> \o Replace(Tail(cs), old, new)

\* str.rfind(c): the last position of c, 0 when there is none
RFind(cs, c) ==
    IF \E i \in 1..Len(cs) : cs[i] = c
    THEN CHOOSE i \in 1..Len(cs) : cs[i] = c /\ \A j \in (i + 1)..Len(cs) : cs[j] # c
    ELSE 0

\* str.strip()
StripChars(cs) ==
    LET keep == {i \in 1..Len(cs) : ~IsSpace(cs[i])}
    IN  IF keep = {} THEN <<>>
        ELSE SubSeq(cs, CHOOSE i \in keep : \A j \in keep : i <= j,
                        CHOOSE i \in keep : \A j \in keep : j <= i)

\* Decimal(s) for a str of digits, '.' and '-': None when it raises
\* InvalidOperation
DecimalOfStr(cs) ==
    LET neg    == cs # <<>> /\ cs[1] = "-"
        body   == IF neg THEN Tail(cs) ELSE cs
        dots   == {i \in 1..Len(body) : body[i] = "."}
        digits == SelectSeq(body, IsDigit)
    IN  IF digits = <<>> \/ Cardinality(dots) > 1
           \/ \E i \in 1..Len(body) : ~IsDigit(body[i]) /\ body[i] # "."
        THEN None
        ELSE Some(Dec(neg, ToNat(digits),
                      IF dots = {} THEN 0 ELSE Len(body) - (CHOOSE i \in dots : TRUE)))

\* re.sub(r'[^\d.-]', '', s)
KeepNumeric(cs) == SelectSeq(cs, LAMBDA c : IsDigit(c) \/ c \in {".", "-"})

\* a - abs(b) on Decimal
SubAbs(a, b) ==
    LET scale == IF a.scale > b.scale THEN a.scale ELSE b.scale
        va    == (IF a.neg THEN -1 ELSE 1) * a.coef * Pow10(scale - a.scale)
        v     == va - b.coef * Pow10(scale - b.scale)
    IN  Dec(v < 0, IF v < 0 THEN -v ELSE v, scale)

\* clean(v) of UniversalParser._parse_money
clean(v) ==
    IF v.kind = "nan" \/ (v.kind = "str" /\ v.s = "") THEN Returned(Some(Dec(FALSE, 0, 0)))
    ELSE IF v.kind = "num" THEN Returned(Some(v.n))
    ELSE LET s0 == Replace(Replace(Replace(Replace(Chars(v.s), <<"€">>, <<>>),
                        <<"E", "U", "R">>, <<>>), <<"$">>, <<>>), <<" ">>, <<>>)
             hasComma == \E i \in 1..Len(s0) : s0[i] = ","
             hasDot   == \E i \in 1..Len(s0) : s0[i] = "."
             s1 == IF hasComma /\ ~hasDot THEN Replace(s0, <<",">>, <<".">>)
                   ELSE IF hasComma /\ hasDot
                   THEN IF RFind(s0, ",") > RFind(s0, ".")
                        THEN Replace(Replace(s0, <<".">>, <<>>), <<",">>, <<".">>)
                        ELSE Replace(s0, <<",">>, <<>>)
                   ELSE s0
             s  == KeepNumeric(s1)
         IN  IF s = <<>> THEN Returned(Some(Dec(FALSE, 0, 0)))
             ELSE IF DecimalOfStr(s) = None THEN Raised
             ELSE Returned(DecimalOfStr(s))

\* UniversalParser._parse_money; `row` maps headers to cells, a missing
\* header reads as NaN, an absent column name is None
_parse_money(row, amount_col, income_col, expense_col) ==
    LET get(col) == IF col # None /\ col[1] \in DOMAIN row THEN row[col[1]] ELSE NaN
        inc == IF Truthy(income_col) THEN clean(get(income_col))
               ELSE Returned(Some(Dec(FALSE, 0, 0)))
        exp == IF Truthy(expense_col) THEN clean(get(expense_col))
               ELSE Returned(Some(Dec(FALSE, 0, 0)))
    IN  IF Truthy(amount_col) /\ get(amount_col).kind # "nan" THEN clean(get(amount_col))
        ELSE IF Truthy(income_col) \/ Truthy(expense_col)
        THEN IF inc.raised \/ exp.raised THEN Raised
             ELSE Returned(Some(SubAbs(inc.val[1], exp.val[1])))
        ELSE Returned(None)

\* BankParser.parse_amount; `logger` is not defined in base_parser.py, so
\* the except branch raises NameError
parse_amount(amount_str) ==
    IF amount_str.kind = "nan" \/ (amount_str.kind = "str" /\ amount_str.s = "")
    THEN Returned(None)
    ELSE IF amount_str.kind = "num" THEN Returned(Some(amount_str.n))
    ELSE LET s0 == StripChars(Replace(Replace(Replace(Replace(StripChars(Chars(amount_str.s)),
                        <<"€">>, <<>>), <<"E", "U", "R">>, <<>>), <<"$">>, <<>>),
                        <<"U", "S", "D">>, <<>>))
             hasComma == \E i \in 1..Len(s0) : s0[i] = ","
             hasDot   == \E i \in 1..Len(s0) : s0[i] = "."
             commas   == {i \in 1..Len(s0) : s0[i] = ","}
             s1 == IF hasComma /\ hasDot
                   THEN IF RFind(s0, ",") > RFind(s0, ".")
                        THEN Replace(Replace(s0, <<".">>, <<>>), <<",">>, <<".">>)
                        ELSE Replace(s0, <<",">>, <<>>)
                   ELSE IF hasComma
                   THEN IF Cardinality(commas) = 1 /\ Len(s0) - RFind(s0, ",") <= 2
                        THEN Replace(s0, <<",">>, <<".">>)
                        ELSE Replace(s0, <<",">>, <<>>)
                   ELSE s0
             s  == KeepNumeric(s1)
         IN  IF s = <<>> THEN Returned(None)
             ELSE IF DecimalOfStr(s) = None THEN Raised
             ELSE Returned(DecimalOfStr(s))


---------------------------------------------------------------------------
(* Date parsing (datetime.strptime and the two format lists)                *)

Day(d) == Cell("date", DateStr(d), Dec(FALSE, 0, 0), d)

\* str.split(sep) for a one-character separator
SplitOn(cs, sep) ==
    LET at  == {i \in 1..Len(cs) : cs[i] = sep}
        cut == [k \in 0..(Cardinality(at) + 1) |->
                   IF k = 0 THEN 0
                   ELSE IF k > Cardinality(at) THEN Len(cs) + 1 ELSE KthIndex(at, k)]
    IN  [k \in 1..(Cardinality(at) + 1) |-> SubSeq(cs, cut[k - 1] + 1, cut[k] - 1)]

MonthNames ==
    <<"january", "february", "march", "april", "may", "june", "july", "august",
      "september", "october", "november", "december">>

\* a format: the directives in order and the literal between them
Format(fields, sep) == [fields |-> fields, sep |-> sep]

\* the value a directive reads from a field, 0 when its pattern rejects it
Directive(f, cs) ==
    LET digits  == cs # <<>> /\ \A i \in 1..Len(cs) : IsDigit(cs[i])
        low     == [i \in 1..Len(cs) |-> LowerChar(cs[i])]
        abbr    == {k \in 1..12 : Chars(SubSeq(MonthNames[k], 1, 3)) = low}
        full    == {k \in 1..12 : Chars(MonthNames[k]) = low}
    IN  CASE f = "Y" -> IF digits /\ Len(cs) = 4 THEN ToNat(cs) ELSE 0
          [] f = "m" -> IF digits /\ ((Len(cs) = 2 /\ ToNat(cs) \in 1..12)
                                      \/ (Len(cs) = 1 /\ ToNat(cs) \in 1..9))
                        THEN ToNat(cs) ELSE 0
          [] f = "d" -> IF digits /\ ((Len(cs) = 2 /\ ToNat(cs) \in 1..31)
                                      \/ (Len(cs) = 1 /\ ToNat(cs) \in 1..9))
                        THEN ToNat(cs)
                        ELSE IF Len(cs) = 2 /\ cs[1] = " " /\ IsDigit(cs[2]) /\ cs[2] # "0"
                        THEN ToNat(<<cs[2]>>) ELSE 0
          [] f = "b" -> IF abbr # {} THEN CHOOSE k \in abbr : TRUE ELSE 0
          [] f = "B" -> IF full # {} THEN CHOOSE k \in full : TRUE ELSE 0

DaysInMonth(y, m) ==
    IF m = 2 THEN (IF y % 4 = 0 /\ (y % 100 # 0 \/ y % 400 = 0) THEN 29 ELSE 28)
    ELSE IF m \in {4, 6, 9, 11} THEN 30 ELSE 31

\* datetime.strptime(s, fmt).date(): None when it raises ValueError
strptime(cs, fmt) ==
    LET compact == {p \in {<<2, 2>>, <<2, 1>>, <<1, 2>>, <<1, 1>>} :
                       /\ Len(cs) = 4 + p[1] + p[2]
                       /\ Directive("m", SubSeq(cs, 5, 4 + p[1])) # 0
                       /\ Directive("d", SubSeq(cs, 5 + p[1], Len(cs))) # 0}
        first   == CHOOSE p \in compact : \A q \in compact : p[1] >= q[1]
        parts   == IF fmt.sep = "" 
                   THEN IF compact = {} THEN <<>>
                        ELSE <<SubSeq(cs, 1, 4), SubSeq(cs, 5, 4 + first[1]),
                               SubSeq(cs, 5 + first[1], Len(cs))>>
                   ELSE IF fmt.sep = " "
                   THEN SelectSeq(SplitOn([i \in 1..Len(cs) |->
                                              IF IsSpace(cs[i]) THEN " " ELSE cs[i]], " "),
                                  LAMBDA p : p # <<>>)
                   ELSE SplitOn(cs, fmt.sep)
        val(f)  == Directive(f, parts[CHOOSE i \in 1..3 : fmt.fields[i] = f])
        y       == val("Y")
        m       == IF \E i \in 1..3 : fmt.fields[i] = "m" THEN val("m")
                   ELSE IF \E i \in 1..3 : fmt.fields[i] = "b" THEN val("b") ELSE val("B")
        d       == val("d")
    IN  IF Len(parts) # 3 THEN None
        ELSE IF y = 0 \/ m = 0 \/ d = 0 \/ d > DaysInMonth(y, m) THEN None
        ELSE Some([y |-> y, m |-> m, d |-> d])

RECURSIVE FirstFormat(_, _)
\* the loop over the formats: the date under the first that accepts
FirstFormat(cs, fmts) ==
    IF fmts = <<>> THEN None
    ELSE IF strptime(cs, Head(fmts)) # None THEN strptime(cs, Head(fmts))
    ELSE FirstFormat(cs, Tail(fmts))

\* fmts of UniversalParser._parse_date
UniversalFormats ==
    << Format(<<"d", "m", "Y">>, "/"), Format(<<"Y", "m", "d">>, "-"),
       Format(<<"d", "m", "Y">>, "-"), Format(<<"m", "d", "Y">>, "/"),
       Format(<<"d", "b", "Y">>, "-"), Format(<<"d", "b", "Y">>, " "),
       Format(<<"d", "m", "Y">>, ".") >>

\* default_formats of BankParser.parse_date
DefaultFormats ==
    << Format(<<"d", "m", "Y">>, "/"), Format(<<"Y", "m", "d">>, "-"),
       Format(<<"d", "m", "Y">>, "-"), Format(<<"m", "d", "Y">>, "/"),
       Format(<<"d", "b", "Y">>, "-"), Format(<<"d", "b", "Y">>, " "),
       Format(<<"d", "B", "Y">>, " "), Format(<<"Y", "m", "d">>, ""),
       Format(<<"Y", "m", "d">>, "/"), Format(<<"d", "m", "Y">>, ".") >>

\* UniversalParser._parse_date
_parse_date(val) ==
    IF val.kind = "nan" THEN Returned(None)
    ELSE IF val.kind = "date" THEN Returned(Some(val.d))
    ELSE Returned(FirstFormat(StripChars(Chars(val.s)), UniversalFormats))

\* BankParser.parse_date with the configured date_formats; the `logger` of
\* line 125 is not defined in base_parser.py, so a string that no format
\* accepts raises NameError
parse_date(date_str, configured_formats) ==
    LET s0 == StripChars(Chars(date_str.s))
        s  == [k \in 1..Cardinality({i \in 1..Len(s0) : ~IsSpace(s0[i]) \/ ~IsSpace(s0[i - 1])}) |->
                  LET c == s0[KthIndex({i \in 1..Len(s0) : ~IsSpace(s0[i]) \/ ~IsSpace(s0[i - 1])}, k)]
                  IN  IF IsSpace(c) THEN " " ELSE c]
        all_formats == configured_formats
                       \o SelectSeq(DefaultFormats, LAMBDA f : f \notin SeqToSet(configured_formats))
        result(found) == IF found = None THEN Raised ELSE Returned(found)
    IN  IF date_str.kind = "nan" \/ date_str.s = "" THEN Returned(None)
        ELSE result(FirstFormat(s, all_formats))


---------------------------------------------------------------------------
(* The parsers applied to single cells *)

MaxParseCalls == 2

\* amount and date cells: both separators in either order, lone commas
\* before one, two and three digits, currency marks, text, blanks,
\* numbers; day-first, ISO, month-first, textual and compact dates,
\* impossible and unreadable ones
ParseCells ==
    {NaN, Num(Dec(TRUE, 455, 1))}
    \cup {Str(s) : s \in {"", "1.234,56", "1,234.56", "1234.56", "1,234", "1,5", "-45,00",
                          "€ 12,50", "12,50 EUR", "abc", "1.2.3", "1,234,567",
                          "03/04/2024", "2024-03-01", "12/31/2024", "31/02/2024",
                          "1-Mar-2024", "5  march 2024", "20240301", "01.03.2024"}}
    \cup {Day([y |-> 2024, m |-> 3, d |-> 1])}

\* date_formats of the default KBC configuration (parser_factory.py)
KbcDateFormats == << Format(<<"d", "m", "Y">>, "/"), Format(<<"Y", "m", "d">>, "-") >>

ParseInit ==
    /\ HashIdle /\ ImpIdle /\ MigIdle /\ CatIdle /\ CreateIdle /\ AnIdle /\ ViewIdle
    /\ \E v \in ParseCells : pin = Some(v)
    /\ pout = <<>>

\* one call of a cell parser on the cell
ParseCall(fn, out) ==
    /\ pin # None
    /\ Len(pout) < MaxParseCalls
    /\ pout' = Append(pout, [fn |-> fn, out |-> out])
    /\ UNCHANGED pin

DoParseAmount == ParseCall("parse_amount", parse_amount(pin[1])) /\ UNCHANGED OutsideParse

DoParseMoney ==
    ParseCall("_parse_money", _parse_money([amount |-> pin[1]], Some("amount"), None, None))
    /\ UNCHANGED OutsideParse

DoParseDateBase ==
    /\ \E configured_formats \in {<<>>, KbcDateFormats} :
          ParseCall("parse_date", parse_date(pin[1], configured_formats))
    /\ UNCHANGED OutsideParse

DoParseDateUniversal ==
    ParseCall("_parse_date", _parse_date(pin[1])) /\ UNCHANGED OutsideParse

ParseNext == DoParseAmount \/ DoParseMoney \/ DoParseDateBase \/ DoParseDateUniversal

SpecParse == ParseInit /\ [][ParseNext]_vars

\* C17: for a str of digits with ',' or '.', both amount parsers return
\* the number read with the last of ',' and '.' as the decimal point when
\* both occur, with a lone ',' as the decimal point when exactly 1 or 2
\* digits follow it up to the end, and as a thousands separator otherwise.
C17_SeparatorRule ==
    \A k \in 1..Len(pout) :
        LET cs       == Chars(pin[1].s)
            commas   == {i \in 1..Len(cs) : cs[i] = ","}
            dots     == {i \in 1..Len(cs) : cs[i] = "."}
            last(S)  == CHOOSE i \in S : \A j \in S : j <= i
            decimal  == IF commas # {} /\ dots # {}
                        THEN (IF last(commas) > last(dots) THEN last(commas) ELSE last(dots))
                        ELSE IF dots # {} THEN last(dots)
                        ELSE IF Cardinality(commas) = 1 /\ Len(cs) - last(commas) \in {1, 2}
                        THEN last(commas) ELSE 0
            digits   == SelectSeq(cs, IsDigit)
            expected == Dec(FALSE, ToNat(digits), IF decimal = 0 THEN 0 ELSE Len(cs) - decimal)
        IN  (/\ pout[k].fn \in {"parse_amount", "_parse_money"}
             /\ pin[1].kind = "str"
             /\ cs # <<>> /\ IsDigit(cs[1]) /\ IsDigit(cs[Len(cs)])
             /\ \A i \in 1..Len(cs) : IsDigit(cs[i]) \/ cs[i] \in {",", "."}
             /\ Cardinality(dots) <= 1
             /\ (commas # {} /\ dots # {} => Cardinality(commas) = 1))
            => pout[k].out = Returned(Some(expected))

\* C18: for a str, each date parser returns the date under the first
\* format of its list that accepts the string, and returns null without
\* raising when no format accepts it.
C18_FirstFormatOrNull ==
    \A k \in 1..Len(pout) :
        (pout[k].fn \in {"parse_date", "_parse_date"} /\ pin[1].kind = "str" /\ pin[1].s # "")
        => /\ ~pout[k].out.raised
           /\ \E fmts \in IF pout[k].fn = "_parse_date" THEN {UniversalFormats}
                          ELSE {DefaultFormats,
                                KbcDateFormats \o SelectSeq(DefaultFormats,
                                    LAMBDA f : f \notin SeqToSet(KbcDateFormats))} :
                 LET cs == StripChars(Chars(pin[1].s))
                     ok == {i \in 1..Len(fmts) : strptime(cs, fmts[i]) # None}
                 IN  IF ok = {} THEN pout[k].out.val = None
                     ELSE pout[k].out.val
                              = strptime(cs, fmts[CHOOSE i \in ok : \A j \in ok : i <= j])


---------------------------------------------------------------------------
(* Tables, column mappings and the conversion of rows                       *)
(* (universal_parser.py, parsers/kbc_parser.py, parsers/generic_parser.py,  *)
(* parsers/parser_factory.py, utils/text_cleaner.py).                       *)
(* A table is [columns, rows]; a row maps each header to a cell and keeps   *)
(* its index.  A dict is a function on its keys; a JSON null is None.  A    *)
(* message is [kind, row, columns]: what it is about, the row index and     *)
(* the headers it lists.                                                    *)

\* dict.get(k)
Get(m, k) == IF k \in DOMAIN m THEN m[k] ELSE None

Message(kind, row, columns) == [kind |-> kind, row |-> row, columns |-> columns]

RECURSIVE JoinSpace(_)
\* ' '.join(words)
JoinSpace(words) ==
    IF words = <<>> THEN ""
    ELSE IF Len(words) = 1 THEN words[1]
    ELSE words[1] \o " " \o JoinSpace(Tail(words))

RECURSIVE RemovePrefixes(_, _)
\* the loop of re.sub(pattern, '', cleaned, flags=re.IGNORECASE): each
\* pattern is a prefix followed by \s*-?\s*
RemovePrefixes(s, patterns) ==
    IF patterns = <<>> THEN s
    ELSE LET p       == Head(patterns)
             hit     == Len(s) >= Len(p) /\ Lower(SubSeq(s, 1, Len(p))) = Lower(p)
             next(i) == IF \E j \in i..Len(s) : ~IsSpace(SubSeq(s, j, j))
                        THEN CHOOSE j \in i..Len(s) :
                                 /\ ~IsSpace(SubSeq(s, j, j))
                                 /\ \A k \in i..(j - 1) : IsSpace(SubSeq(s, k, k))
                        ELSE Len(s) + 1
             dash    == next(Len(p) + 1)
             from    == IF dash <= Len(s) /\ SubSeq(s, dash, dash) = "-"
                        THEN next(dash + 1) ELSE dash
         IN  RemovePrefixes(IF hit THEN SubSeq(s, from, Len(s)) ELSE s, Tail(patterns))

\* utils/text_cleaner.py
clean_transaction_description(description) ==
    IF description = "" THEN description
    ELSE Strip(JoinSpace(split(RemovePrefixes(Strip(description),
             << "Betaling via bancontact", "Betaling via debit mastercard",
                "Betaling via Bancontact", "Betaling via Debit Mastercard",
                "Overschrijving naar", "Overschrijving van", "Domiciliëring",
                "Europese overschrijving", "SEPA domiciliëring", "SEPA overschrijving",
                "Terugbetaling", "Storting", "Opname" >>))))

\* lines 244-248 (and kbc_parser.py 93-97): the text of a mapped column
TextOf(row, col) ==
    IF Truthy(col) /\ col[1] \in DOMAIN row.cells /\ row.cells[col[1]].kind # "nan"
    THEN Some(row.cells[col[1]].s) ELSE None

Cleaned(desc) == IF Truthy(desc) THEN Some(clean_transaction_description(desc[1])) ELSE desc

\* the transactions of the rows that gave one, and the messages of the
\* others, each in row order
Collect(outcomes) ==
    [transactions |-> [k \in 1..Len(SelectSeq(outcomes, LAMBDA o : o.t # None)) |->
                          LET o == SelectSeq(outcomes, LAMBDA o : o.t # None)[k]
                          IN  [row |-> o.row, t |-> o.t[1]]],
     errors |-> [k \in 1..Len(SelectSeq(outcomes, LAMBDA o : o.t = None /\ o.msg # "")) |->
                    LET o == SelectSeq(outcomes, LAMBDA o : o.t = None /\ o.msg # "")[k]
                    IN  Message(o.msg, o.row + 1, <<>>)]]

\* UniversalParser._df_to_transactions: a row that fails is passed over
_df_to_transactions(df, mapping) ==
    LET cell(row, col) == IF col # None /\ col[1] \in DOMAIN row.cells
                          THEN row.cells[col[1]] ELSE NaN
        outcome(row, datum, bedrag) ==
            IF datum.val = None \/ bedrag.raised \/ bedrag.val = None
            THEN [row |-> row.idx, t |-> None, msg |-> ""]
            ELSE [row |-> row.idx, msg |-> "",
                  t |-> Some(ParsedTransaction(<<datum.val[1], bedrag.val[1],
                            TextOf(row, Get(mapping, "counterparty")),
                            Cleaned(TextOf(row, Get(mapping, "description")))>>))]
    IN  Collect([i \in 1..Len(df.rows) |->
            outcome(df.rows[i], _parse_date(cell(df.rows[i], Get(mapping, "date"))),
                    _parse_money(df.rows[i].cells, Get(mapping, "amount"),
                                 Get(mapping, "income"), Get(mapping, "expense")))])

\* find_actual_column of process_file
find_actual_column(columns, requested_name) ==
    LET same(col) == StripChars(Lower(col)) = StripChars(Lower(requested_name[1]))
    IN  IF ~Truthy(requested_name) \/ ~\E i \in 1..Len(columns) : same(columns[i])
        THEN None
        ELSE Some(columns[CHOOSE i \in 1..Len(columns) :
                              same(columns[i]) /\ \A j \in 1..(i - 1) : ~same(columns[j])])

\* UniversalParser.process_file on the frame read from the file; `reply` is
\* what self.ai gives: kind "disabled" (no client), "failed" (an error or
\* text that is not JSON), "dict" (a JSON object), "other" (any other
\* non-empty JSON value)
UniversalProcessFile(df, reply) ==
    LET mapping   == IF reply.kind = "dict" THEN reply.mapping ELSE None
        calls     == IF reply.kind = "disabled" THEN 0 ELSE 1
        targets   == {target \in DOMAIN mapping :
                         find_actual_column(df.columns, mapping[target]) # None}
        validated_mapping == [target \in targets |->
                                 find_actual_column(df.columns, mapping[target])]
        has_date  == "date" \in targets
        has_money == targets \cap {"amount", "income", "expense"} # {}
        out(transactions, messages, used) ==
            [transactions |-> transactions, messages |-> messages, oracle_calls |-> calls,
             mapping |-> used, bank_id |-> None]
        result(converted) ==
            IF converted.transactions = <<>>
            THEN out(<<>>, <<Message("no_valid_data", 0, <<>>)>>, Some(validated_mapping))
            ELSE out(converted.transactions, <<Message("mapping_info", 0, <<>>)>>,
                     Some(validated_mapping))
    IN  IF df.rows = <<>>
        THEN [out(<<>>, <<Message("empty_file", 0, <<>>)>>, None) EXCEPT !.oracle_calls = 0]
        ELSE IF reply.kind = "other"
        THEN out(<<>>, <<Message("exception", 0, <<>>)>>, None)
        ELSE IF targets = {} \/ ~has_date \/ ~has_money
        THEN out(<<>>, <<Message("mapping_failed", 0, df.columns)>>, None)
        ELSE result(_df_to_transactions(df, validated_mapping))


\* df.dropna(how='all')
DropEmptyRows(df) ==
    [df EXCEPT !.rows = SelectSeq(df.rows,
        LAMBDA r : \E h \in DOMAIN r.cells : r.cells[h].kind # "nan")]

\* column_mapping of the default KBC configuration (parser_factory.py)
KbcColumnMapping ==
    [date |-> Some("Datum"), amount |-> Some("Bedrag"),
     counterparty_name |-> Some("Naam tegenpartij"), description |-> Some("Omschrijving")]

\* the four encodings of the default KBC configuration, the three of the
\* generic parser
KbcEncodings == 4

GenericEncodings == 3

\* KBCParser.parse_csv on the frame read from the file: the frame (None
\* when it fails) and the messages
KBCParser_parse_csv(df0) ==
    LET df      == DropEmptyRows(df0)
        missing == {col \in {"Datum", "Bedrag"} : col \notin SeqToSet(df.columns)}
    IN  IF df.rows # <<>> /\ missing = {} THEN [df |-> Some(df), errors |-> <<>>]
        ELSE [df |-> None,
              errors |-> (IF df.rows = <<>> THEN <<>>
                          ELSE [k \in 1..(2 * KbcEncodings) |->
                                   IF k % 2 = 1 THEN Message("missing_columns", 0, <<>>)
                                   ELSE Message("found_columns", 0, df.columns)])
                         \o <<Message("could_not_parse", 0, <<>>)>>]

\* the loop body shared by KBCParser.df_to_transactions and
\* GenericBankParser.df_to_transactions once the cells are read: `datum`
\* and `bedrag` are the results of the parser calls
BankRow(row, datum, bedrag, name_col, desc_col) ==
    IF datum.raised THEN [row |-> row.idx, t |-> None, msg |-> "row_exception"]
    ELSE IF datum.val = None THEN [row |-> row.idx, t |-> None, msg |-> "invalid_date"]
    ELSE IF bedrag.raised THEN [row |-> row.idx, t |-> None, msg |-> "row_exception"]
    ELSE IF bedrag.val = None THEN [row |-> row.idx, t |-> None, msg |-> "invalid_amount"]
    ELSE [row |-> row.idx, msg |-> "",
          t |-> Some(ParsedTransaction(<<datum.val[1], bedrag.val[1], TextOf(row, name_col),
                                         Cleaned(TextOf(row, desc_col))>>))]

KBCParser_df_to_transactions(df) ==
    Collect([i \in 1..Len(df.rows) |->
        BankRow(df.rows[i], parse_date(df.rows[i].cells["Datum"], KbcDateFormats),
                parse_amount(df.rows[i].cells["Bedrag"]),
                KbcColumnMapping.counterparty_name, KbcColumnMapping.description)])

\* GenericBankParser.parse_csv: one oracle call per encoding until a reply
\* has 'date' and a money key; replies[k] is the k-th reply
GenericBankParser_parse_csv(df0, replies) ==
    LET df       == DropEmptyRows(df0)
        detected(k) == IF replies[k].kind = "dict" THEN replies[k].mapping ELSE <<>>
        ok(k)    == /\ "date" \in DOMAIN detected(k)
                    /\ DOMAIN detected(k) \cap {"amount", "income", "expense"} # {}
        good     == {k \in 1..GenericEncodings : ok(k)}
        first    == CHOOSE k \in good : \A j \in good : k <= j
    IN  IF df.rows = <<>>
        THEN [df |-> None, errors |-> <<Message("could_not_parse", 0, <<>>)>>,
              detected_mapping |-> None, oracle_calls |-> 0]
        ELSE IF good = {}
        THEN [df |-> None,
              errors |-> [k \in 1..GenericEncodings |-> Message("ai_no_columns", 0, <<>>)]
                         \o <<Message("could_not_parse", 0, <<>>)>>,
              detected_mapping |-> None, oracle_calls |-> GenericEncodings]
        ELSE [df |-> Some(df),
              errors |-> [k \in 1..(first - 1) |-> Message("ai_no_columns", 0, <<>>)],
              detected_mapping |-> Some(detected(first)), oracle_calls |-> first]

GenericBankParser_df_to_transactions(df, detected_mapping) ==
    LET date_col    == Get(detected_mapping, "date")
        amount_col  == Get(detected_mapping, "amount")
        income_col  == Get(detected_mapping, "income")
        expense_col == Get(detected_mapping, "expense")
        name_col    == IF "counterparty_name" \in DOMAIN detected_mapping
                       THEN detected_mapping.counterparty_name
                       ELSE Get(detected_mapping, "description")
        \* row[col]: KeyError for a name that is no header
        read(row, col, parse(_)) ==
            IF col[1] \in DOMAIN row.cells THEN parse(row.cells[col[1]]) ELSE Raised
        zero(r) == IF r.raised \/ r.val # None THEN r ELSE Returned(Some(Dec(FALSE, 0, 0)))
        amount(row) ==
            IF Truthy(amount_col) THEN read(row, amount_col, parse_amount)
            ELSE IF Truthy(income_col) /\ Truthy(expense_col)
            THEN LET inc == zero(read(row, income_col, parse_amount))
                     exp == zero(read(row, expense_col, parse_amount))
                 IN  IF inc.raised \/ exp.raised THEN Raised
                     ELSE Returned(Some(SubAbs(inc.val[1], exp.val[1])))
            ELSE Returned(None)
    IN  Collect([i \in 1..Len(df.rows) |->
            BankRow(df.rows[i],
                    IF Truthy(date_col)
                    THEN read(df.rows[i], date_col, LAMBDA c : parse_date(c, <<>>))
                    ELSE Returned(None),
                    amount(df.rows[i]), name_col, Get(detected_mapping, "description"))])

\* ParserFactory.detect_bank_format for a CSV file name: the parsers are
\* the default KBC parser and, when configured, the generic CSV parser
detect_bank_format(df, generic) ==
    IF KBCParser_parse_csv(df).df # None THEN Some("kbc_dutch")
    ELSE IF generic THEN Some("generic_csv") ELSE None

\* ParserFactory.process_file without bank_id: get_parser, then
\* BankParser.process_file of the parser found (the first parser when
\* nothing is detected)
ParserFactory_process_file(df, generic, replies) ==
    LET used_bank_id == detect_bank_format(df, generic)
        kbc   == KBCParser_parse_csv(df)
        gen   == GenericBankParser_parse_csv(df, replies)
        out(transactions, messages, calls, used) ==
            [transactions |-> transactions, messages |-> messages, oracle_calls |-> calls,
             mapping |-> used, bank_id |-> used_bank_id]
        result(c, errors, calls, used) ==
            out(c.transactions, errors \o c.errors, calls, used)
    IN  IF used_bank_id = Some("generic_csv")
        THEN IF gen.df = None THEN out(<<>>, gen.errors, gen.oracle_calls, None)
             ELSE result(GenericBankParser_df_to_transactions(gen.df[1], gen.detected_mapping[1]),
                         gen.errors, gen.oracle_calls, gen.detected_mapping)
        ELSE IF kbc.df = None THEN out(<<>>, kbc.errors, 0, None)
        ELSE result(KBCParser_df_to_transactions(kbc.df[1]), kbc.errors, 0,
                    Some(KbcColumnMapping))


---------------------------------------------------------------------------
(* Ingestion of uploaded tables *)

MaxTableRows == 2

MaxIngestCalls == 1

\* the layouts of the uploaded files: the KBC export and a file with split
\* credit and debit columns; and the rows of each: readable rows, a text
\* and a blank amount, an unreadable date, a lone thousands comma
Layouts ==
    LET cells(columns, vs) == [h \in SeqToSet(columns) |->
                                  vs[CHOOSE i \in 1..Len(columns) : columns[i] = h]]
        kbc   == <<"Datum", "Bedrag", "Naam tegenpartij">>
        credit == <<"Date", "Credit", "Debit">>
    IN  { [columns |-> kbc,
           pool |-> { cells(kbc, <<Str("01/03/2024"), Str("-45,50"), Str("Delhaize")>>),
                      cells(kbc, <<Str("02/03/2024"), Str("abc"), NaN>>),
                      cells(kbc, <<Str("n/a"), Str("12,00"), Str("Opname - Colruyt")>>),
                      cells(kbc, <<Str("03/03/2024"), NaN, Str("Werkgever")>>) }],
          [columns |-> credit,
           pool |-> { cells(credit, <<Str("2024-03-01"), Num(Dec(FALSE, 1000, 1)), NaN>>),
                      cells(credit, <<Str("2024-03-02"), NaN, Str("30,5")>>),
                      cells(credit, <<Str("2024-03-03"), NaN, NaN>>),
                      cells(credit, <<Str("bad"), Str("5"), NaN>>) }] }

Reply(kind, mapping) == [kind |-> kind, mapping |-> mapping]

\* what the column-mapping oracle can give: nothing, text that is no JSON
\* object, mappings onto the headers (in another case, with null), onto
\* headers that do not exist, without date, without money
OracleReplies ==
    { Reply("disabled", <<>>), Reply("failed", <<>>), Reply("other", <<>>),
      Reply("dict", [date |-> Some("datum"), amount |-> Some("Bedrag"),
                     counterparty |-> Some("Naam tegenpartij"), description |-> None]),
      Reply("dict", [date |-> Some("Datum"), amount |-> Some("Bedrag"),
                     description |-> Some("Naam tegenpartij")]),
      Reply("dict", [date |-> Some("Date"), income |-> Some("Credit"),
                     expense |-> Some("Debit")]),
      Reply("dict", [date |-> Some("Datum"), amount |-> Some("Amount")]),
      Reply("dict", [amount |-> Some("Bedrag"), income |-> Some("Credit")]) }

\* the replies to AIColumnDetector.detect_column_mapping
DetectorReplies ==
    { Reply("failed", <<>>),
      Reply("dict", [date |-> Some("Date"), income |-> Some("Credit"),
                     expense |-> Some("Debit"), counterparty_name |-> Some("Payee")]),
      Reply("dict", [date |-> Some("Date"), amount |-> Some("Amount")]),
      Reply("dict", [amount |-> Some("Credit")]) }

\* the frame read from the uploaded file
IngestInit ==
    /\ HashIdle /\ ImpIdle /\ MigIdle /\ CatIdle /\ CreateIdle /\ AnIdle /\ ViewIdle
    /\ \E layout \in Layouts, n \in 0..MaxTableRows :
          \E rows \in [1..n -> layout.pool] :
              pin = Some([columns |-> layout.columns,
                          rows |-> [i \in 1..n |-> [idx |-> i - 1, cells |-> rows[i]]]])
    /\ pout = <<>>

IngestCall(path, out) ==
    /\ pin # None
    /\ Len(pout) < MaxIngestCalls
    /\ pout' = Append(pout, [path |-> path, out |-> out])
    /\ UNCHANGED pin

\* show_file_upload: UniversalParser().process_file(uploaded_file)
DoUniversalProcessFile ==
    /\ \E reply \in OracleReplies : IngestCall("upload", UniversalProcessFile(pin[1], reply))
    /\ UNCHANGED OutsideParse

\* ParserFactory.process_file(file_content, filename='x.csv')
DoFactoryProcessFile ==
    /\ \E generic \in BOOLEAN : \E replies \in [1..GenericEncodings -> DetectorReplies] :
          IngestCall("factory", ParserFactory_process_file(pin[1], generic, replies))
    /\ UNCHANGED OutsideParse

IngestNext == DoUniversalProcessFile \/ DoFactoryProcessFile

SpecIngest == IngestInit /\ [][IngestNext]_vars

\* C15: whenever rows were converted under an accepted mapping, every row
\* of the table has either its transaction or one warning carrying its
\* index, so transactions + row warnings = number of rows.
C15_OneOutcomePerRow ==
    \A k \in 1..Len(pout) :
        pout[k].out.mapping # None =>
            LET warnings == SelectSeq(pout[k].out.messages, LAMBDA m : m.row > 0)
            IN  /\ Len(pout[k].out.transactions) + Len(warnings) = Len(pin[1].rows)
                /\ \A i \in 1..Len(pin[1].rows) :
                      \/ \E j \in 1..Len(pout[k].out.transactions) :
                             pout[k].out.transactions[j].row = pin[1].rows[i].idx
                      \/ \E j \in 1..Len(warnings) : warnings[j].row = pin[1].rows[i].idx + 1

\* C16: every transaction comes from a row in which the mapped amount
\* cell, or one of the mapped income and expense cells, holds a number (a
\* numeric cell or text with a digit); text without digits and blanks give
\* no transaction.
C16_NoAmountFromNothing ==
    \A k \in 1..Len(pout) : \A j \in 1..Len(pout[k].out.transactions) :
        LET mapping == pout[k].out.mapping[1]
            row     == pin[1].rows[pout[k].out.transactions[j].row + 1]
            money   == {mapping[key][1] : key \in {key \in DOMAIN mapping
                            \cap {"amount", "income", "expense"} : mapping[key] # None}}
        IN  \E h \in money \cap DOMAIN row.cells :
                \/ row.cells[h].kind = "num"
                \/ /\ row.cells[h].kind = "str"
                   /\ \E i \in 1..Len(row.cells[h].s) : IsDigit(SubSeq(row.cells[h].s, i, i))

\* C19: on the oracle-assisted paths rows are converted only under a
\* mapping whose columns are all headers of the table and that has 'date'
\* and one of 'amount', 'income', 'expense'; every other outcome has no
\* transactions and a message that lists the headers.
C19_OnlyValidatedMappings ==
    \A k \in 1..Len(pout) :
        (pout[k].path = "upload" \/ pout[k].out.bank_id = Some("generic_csv")) =>
            LET out     == pout[k].out
                valid(mapping) ==
                    /\ \A key \in DOMAIN mapping :
                          mapping[key] # None /\ mapping[key][1] \in SeqToSet(pin[1].columns)
                    /\ "date" \in DOMAIN mapping
                    /\ DOMAIN mapping \cap {"amount", "income", "expense"} # {}
            IN  IF out.mapping # None
                THEN valid(out.mapping[1])
                ELSE /\ out.transactions = <<>>
                     /\ pin[1].rows # <<>> =>
                            \E i \in 1..Len(out.messages) :
                                out.messages[i].columns = pin[1].columns

\* C20: a table whose headers contain the required columns of the
\* configured KBC format is ingested with the static KBC mapping and
\* without a call of the oracle.
C20_StaticBeforeOracle ==
    \A k \in 1..Len(pout) :
        ({"Datum", "Bedrag"} \subseteq SeqToSet(pin[1].columns) /\ pin[1].rows # <<>>)
        => /\ pout[k].out.oracle_calls = 0
           /\ pout[k].out.mapping = Some(KbcColumnMapping)

---------------------------------------------------------------------------
(* Deletions of the re-hash pass *)

\* C26: a record that a pass fetched and that is gone after it has the
\* fingerprint of a record processed earlier in the same pass and still
\* stored; a record whose fingerprint no other fetched record has is
\* never deleted, whatever the store answered.
C26_DeletesOnlyDuplicates ==
    mig # None =>
        LET m == mig[1]
            kept(r) == \E s \in SeqToSet(db) : s.id = r.id
        IN  \A i \in 1..Len(m.fetched) :
                ~kept(m.fetched[i]) =>
                    \E j \in 1..(i - 1) :
                        /\ FreshHash(m.fetched[j]) = FreshHash(m.fetched[i])
                        /\ kept(m.fetched[j])

---------------------------------------------------------------------------
(* A learned rule put to use: the rule that learn_from_correction returned  *)
(* is appended to the rules of the corrected category, and the transaction  *)
(* is categorized again by the engine holding the new rules.                *)

\* the categories with `rule` appended to the rules of the category `name`
AppendRule(categories, name, rule) ==
    [k \in 1..Len(categories) |->
        IF categories[k].name = name
        THEN [categories[k] EXCEPT !.rules = Append(@, rule)]
        ELSE categories[k]]

\* the rule of the last correction is stored with its category
\* (update_category_rules) and the engine holds the new rules
ApplyLearnedRule ==
    /\ engine # None
    /\ results # <<>>
    /\ LET r == results[Len(results)]
       IN  /\ "ret" \in DOMAIN r
           /\ r.ret.rule # None
           /\ \E k \in 1..Len(engine[1].categories) : engine[1].categories[k].name = r.category
           /\ engine' = Some([engine[1] EXCEPT
                  !.categories = AppendRule(@, r.category, r.ret.rule[1])])
           /\ results' = Append(results, [i |-> r.i, category |-> r.category,
                                          applied |-> r.ret.rule[1]])
    /\ UNCHANGED <<txs, before>>

\* cat_engine.categorize_transaction on the corrected transaction
Recategorize ==
    /\ engine # None
    /\ results # <<>>
    /\ LET r == results[Len(results)]
       IN  /\ "applied" \in DOMAIN r
           /\ results' = Append(results,
                  [i |-> r.i, name |-> categorize_transaction(engine[1].categories, txs[r.i])])
    /\ UNCHANGED <<engine, txs, before>>

DoApplyLearnedRule == ApplyLearnedRule /\ UNCHANGED OutsideCat

DoRecategorize == Recategorize /\ UNCHANGED OutsideCat

RelearnNext == DoNewEngine \/ DoLearn \/ DoApplyLearnedRule \/ DoRecategorize

SpecRelearn == LearnInit /\ [][RelearnNext]_vars

\* C28: when the rule returned for a correction has been appended to the
\* rules of the corrected category, categorize_transaction on the same
\* transaction returns the corrected category.
C28_LearningIsEffective ==
    \A k \in 2..Len(results) :
        ("name" \in DOMAIN results[k] /\ "applied" \in DOMAIN results[k - 1])
            => results[k].name = results[k - 1].category

---------------------------------------------------------------------------
(* Imports and re-hash passes on one store *)

\* the "Duplicaten Opschonen" button of the dashboard, pressed once while
\* no upload is under way
DoRehashPass == mig = None /\ pending = None /\ DoMigrate

\* show_file_upload by one user, the stored fingerprints fetched
DoUploadFetched ==
    \E u \in {"u1"}, rows \in Files : Upload(u, rows, TRUE) /\ UNCHANGED OutsideImp

RehashNext == DoUploadFetched \/ DoImport \/ DoRehashPass

SpecRehash == Init /\ [][RehashNext]_vars

\* every row of the file is a stored record of the user, field by field
\* (the amount as the float the store holds)
AllRowsStored(tbl, user, rows) ==
    \A i \in 1..Len(rows) :
        \E r \in SeqToSet(SelectSeq2(tbl, user)) :
            /\ r.datum = DateStr(rows[i][1])
            /\ r.bedrag = to_float(rows[i][2])
            /\ r.naam_tegenpartij = rows[i][3]
            /\ r.omschrijving = rows[i][4]

\* C27: once a re-hash pass has run for a user, an import of a file whose
\* rows are all stored for that user inserts no transaction.
C27_RehashPreservesDedup ==
    [][(/\ log' # log /\ log' # None /\ log'[1].outcomes # <<>>
        /\ mig # None /\ mig[1].user = log'[1].user
        /\ AllRowsStored(db, log'[1].user, log'[1].rows))
       => log'[1].success = 0]_vars

---------------------------------------------------------------------------
(* services/ai_categorizer.py: AiCategorizer.analyze_batch                 *)
(*                                                                         *)
(* The transactions are Python objects: a list holds references (1..n)     *)
(* into a heap of Transaction records, and the enrichment mutates the      *)
(* objects in place.  The oracle's answer is modelled by the value the     *)
(* text decodes to; a confidence is counted in tenths.                     *)

\* batch_size of analyze_batch
batch_size == 100

\* the lengths of the analysed lists: none, one chunk, a full chunk, two
\* chunks, three chunks
AiLengths == {0, 1, batch_size, batch_size + 1, 2 * batch_size + 1}

\* the fields declared by the Transaction model; pydantic's BaseModel
\* refuses to read or assign any other attribute (Config sets only
\* arbitrary_types_allowed)
TransactionFields ==
    {"id", "user_id", "datum", "bedrag", "naam_tegenpartij", "omschrijving",
     "categorie", "categorie_id", "is_confirmed", "hash"}

\* `txn.name = value`: ValueError for a name that is not a field
SetAttr(t, name, value) ==
    IF name \in TransactionFields
    THEN Returned([f \in DOMAIN t |-> IF f = name THEN value ELSE t[f]])
    ELSE Raised

\* one statement of the enrichment loop on the object of `r`: an
\* exception leaves the object as the earlier statements made it
AiAssign(r, name, value) ==
    IF r.raised THEN r
    ELSE LET s == SetAttr(r.obj, name, value)
         IN  IF s.raised THEN [raised |-> TRUE, obj |-> r.obj]
             ELSE [raised |-> FALSE, obj |-> s.val]

VagueNames ==
    {"kbc", "overschrijving", "betaling", "europese overschrijving", "onbekend",
     "diverse"}

\* re.search(r'\d{2}[-/]\d{2}', name)
HasDatePart(cs) ==
    \E i \in 1..(Len(cs) - 4) :
        /\ IsDigit(cs[i]) /\ IsDigit(cs[i + 1]) /\ cs[i + 2] \in {"-", "/"}
        /\ IsDigit(cs[i + 3]) /\ IsDigit(cs[i + 4])

\* _is_bad_name of an optional str
_is_bad_name(name) ==
    \/ ~Truthy(name)
    \/ Len(Strip(name[1])) < 3
    \/ HasDatePart(Chars(name[1]))
    \/ 2 * Cardinality({i \in 1..Len(name[1]) : IsDigit(SubSeq(name[1], i, i))})
          > Len(name[1])
    \/ \E v \in VagueNames : Chars(v) = Lower(Strip(name[1]))

\* available_categories as set_categories leaves it in __init__
available_categories == [i \in 1..Len(DEFAULT_CATEGORIES) |-> DEFAULT_CATEGORIES[i].name]

\* the category of the store an oracle's category is mapped to: the name
\* equal to it without case, else the first name that contains it or is
\* contained in it; None when there is none
MatchedCategory(ai_cat, available) ==
    LET exact == {i \in 1..Len(available) : Lower(available[i]) = Lower(ai_cat)}
        near  == {i \in 1..Len(available) :
                     \/ Contains(Lower(ai_cat), Lower(available[i]))
                     \/ Contains(Lower(available[i]), Lower(ai_cat))}
    IN  IF exact # {}
        THEN Some(available[CHOOSE i \in exact : \A j \in exact : j <= i])
        ELSE IF near # {}
             THEN Some(available[CHOOSE i \in near : \A j \in near : i <= j])
             ELSE None

\* one result of the oracle: a dict with optional name, category and
\* confidence, or a value that is not a dict
AiResult(name, category, confidence) ==
    [dict |-> TRUE, name |-> name, category |-> category, confidence |-> confidence]

NotADict == [dict |-> FALSE, name |-> None, category |-> None, confidence |-> None]

\* the body of the loop over zip(chunk, results) for one pair
EnrichOne(t, result, available) ==
    IF ~result.dict THEN [raised |-> TRUE, obj |-> t]
    ELSE
    LET ai_name == IF result.name = None THEN t.naam_tegenpartij ELSE result.name
        conf    == IF result.confidence = None THEN 5 ELSE result.confidence[1]
        ai_cat  == result.category
        matched == IF Truthy(ai_cat) THEN MatchedCategory(ai_cat[1], available) ELSE None
        meta(r) == AiAssign(AiAssign(AiAssign(AiAssign(r,
                       "ai_name", ai_name), "ai_reasoning", Some("")),
                       "ai_confidence", Some(conf)), "ai_category", ai_cat)
        keeps(r) == /\ Lower(matched[1]) = Lower("overig")
                    /\ Truthy(r.obj.categorie)
                    /\ Lower(r.obj.categorie[1]) # Lower("overig")
        categorized(r) ==
            IF ~r.raised /\ matched # None /\ conf > 5 /\ ~keeps(r)
            THEN AiAssign(r, "categorie", matched) ELSE r
        emptyish(n) == ~Truthy(n) \/ Lower(n[1]) \in {Chars("kbc ---"), Chars("---"),
                                                       Chars("onbekend")}
        renamed(r) ==
            IF r.raised \/ conf <= 7 THEN r
            ELSE IF _is_bad_name(r.obj.naam_tegenpartij)
                    /\ Truthy(ai_name) /\ Len(Strip(ai_name[1])) > 2
                 THEN AiAssign(r, "naam_tegenpartij", ai_name)
                 ELSE IF emptyish(r.obj.naam_tegenpartij)
                      THEN AiAssign(r, "naam_tegenpartij", ai_name)
                      ELSE r
    IN  renamed(categorized(meta([raised |-> FALSE, obj |-> t])))

\* what the oracle does for one chunk: generate_content raises, or returns
\* None, or a text; a text is given by what it decodes to, a list by its
\* length and its items (all alike)
AiReply(kind, count, item) == [kind |-> kind, count |-> count, item |-> item]

\* _parse_response: the decoded value, and the empty list for every text
\* that raises (None has no strip(); a text without JSON does not decode)
_parse_response(reply) ==
    IF reply.kind \in {"none", "garbage"} THEN AiReply("list", 0, NotADict) ELSE reply

RECURSIVE EnrichLoop(_, _, _, _, _)
\* the loop over zip(chunk, results) from pair k on: the heap when the loop
\* ends or raises
EnrichLoop(heap, chunk, answers, available, k) ==
    IF k > Len(chunk) \/ k > Len(answers) THEN heap
    ELSE LET r == EnrichOne(heap[chunk[k]], answers[k], available)
         IN  IF r.raised THEN [heap EXCEPT ![chunk[k]] = r.obj]
             ELSE EnrichLoop([heap EXCEPT ![chunk[k]] = r.obj], chunk, answers,
                             available, k + 1)

\* the try block of one chunk: the heap after it.  A number cannot be
\* zipped and the keys of an object are str without get(): both raise
\* before any transaction is touched; a falsy answer becomes the empty list
TryChunk(heap, chunk, reply, available) ==
    LET answer == _parse_response(reply)
    IN  IF reply.kind = "raise" \/ answer.kind \in {"number", "object"} THEN heap
        ELSE EnrichLoop(heap, chunk, [i \in 1..answer.count |-> answer.item],
                        available, 1)

\* a slip that adds a chunk to the result only when its oracle call gave a
\* non-empty list
ProcessChunk_OnSuccess(st, chunk, reply, available) ==
    [heap |-> TryChunk(st.heap, chunk, reply, available),
     processed |-> IF reply.kind = "list" /\ reply.count > 0
                   THEN st.processed \o chunk ELSE st.processed]

\* one iteration of the loop over the chunks: the try block, then
\* processed_txns.extend(chunk) whatever happened
ProcessChunk(st, chunk, reply, available) ==
    [heap |-> TryChunk(st.heap, chunk, reply, available),
     processed |-> st.processed \o chunk]

Min(a, b) == IF a < b THEN a ELSE b

ChunkCount(n) == (n + batch_size - 1) \div batch_size

RECURSIVE ChunkLoop(_, _, _, _, _)
\* the chunks from number c on (the first is number 1)
ChunkLoop(st, transactions, replies, available, c) ==
    IF c > ChunkCount(Len(transactions)) THEN st
    ELSE ChunkLoop(ProcessChunk(st,
                       SubSeq(transactions, (c - 1) * batch_size + 1,
                              Min(c * batch_size, Len(transactions))),
                       replies[c], available),
                   transactions, replies, available, c + 1)

\* analyze_batch: the returned list and the heap after the call
analyze_batch(enabled, heap, transactions, replies, available) ==
    IF ~enabled \/ transactions = <<>>
    THEN [heap |-> heap, processed |-> transactions]
    ELSE ChunkLoop([heap |-> heap, processed |-> <<>>], transactions, replies,
                   available, 1)

---------------------------------------------------------------------------
(* Oracle specification: analyze_batch on lists of parsed transactions     *)

AiNames == <<Some("KBC"), Some("Aldi Gent"), None, Some("12/03 4411")>>

\* the parsed transaction number i of a list
AiTransaction(i) ==
    Transaction([y |-> 2024, m |-> 3, d |-> 1], Dec(TRUE, 4550, 2),
                AiNames[(i % Len(AiNames)) + 1], Some("A"))

AiItems ==
    {AiResult(Some("Aldi"), Some("eten & drinken"), Some(9)),
     AiResult(None, Some("Overig"), None),
     NotADict}

\* the answers for a chunk of n transactions: no result, one, one too
\* few, one per transaction, one too many
AiReplies(n) ==
    {AiReply(k, 0, NotADict) : k \in {"raise", "none", "garbage", "number", "object"}}
    \cup {AiReply("list", m, item) :
             m \in {0, 1, n - 1, n, n + 1} \cap Nat, item \in AiItems}

\* the size of chunk c of a list of n transactions
ChunkSize(n, c) == Min(batch_size, n - (c - 1) * batch_size)

\* the list of n parsed transactions and the heap that holds them
AiInput(n) == [i \in 1..n |-> i]

AiHeap(n) == [i \in 1..n |-> AiTransaction(i)]

\* a categorizer (enabled or not), a list of n transactions and the
\* oracle's answer for each chunk
AiInit ==
    /\ HashIdle /\ ImpIdle /\ MigIdle /\ CatIdle /\ CreateIdle /\ AnIdle /\ ParseIdle
    /\ ReviewIdle /\ MemoIdle /\ SuggIdle /\ WizIdle
    /\ \E enabled \in BOOLEAN, n \in AiLengths :
          \E r1 \in AiReplies(ChunkSize(n, 1)) :
          \E r2 \in IF n > batch_size THEN AiReplies(ChunkSize(n, 2)) ELSE {r1} :
          \E r3 \in IF n > 2 * batch_size THEN AiReplies(ChunkSize(n, 3)) ELSE {r1} :
             ai = Some([enabled |-> enabled, n |-> n, replies |-> <<r1, r2, r3>>,
                        called |-> FALSE, output |-> <<>>, changed |-> {}])

\* the call of analyze_batch: the returned list and the objects whose
\* fields the call changed are recorded
AnalyzeBatch ==
    LET c == ai[1]
        record(out) ==
            [c EXCEPT !.called = TRUE, !.output = out.processed,
                      !.changed = {i \in 1..c.n : out.heap[i] # AiHeap(c.n)[i]}]
    IN  /\ ~c.called
        /\ ai' = Some(record(analyze_batch(c.enabled, AiHeap(c.n), AiInput(c.n),
                                           c.replies, available_categories)))

DoAnalyzeBatch ==
    /\ AnalyzeBatch
    /\ UNCHANGED <<hashVars, impVars, migVars, catVars, createVars, anVars, parseVars,
                   review, memo, sugg, wiz>>

AiNext == DoAnalyzeBatch

SpecAi == AiInit /\ [][AiNext]_vars

\* C21: whatever the oracle does for each chunk (an exception, no answer,
\* an answer that does not decode, a value that is not a list, fewer or
\* more results than transactions), analyze_batch returns exactly the
\* transactions it was given, in the order given, each once; a chunk whose
\* oracle call failed is returned like the others and the chunks after it
\* are still returned.
C21_OracleFailureKeepsAll ==
    (ai # None /\ ai[1].called) => ai[1].output = AiInput(ai[1].n)

\* a call on three chunks whose first oracle call raised, whose second gave
\* one result too few and whose third gave a result per transaction
C21_Witness ==
    /\ ai # None /\ ai[1].called /\ ai[1].enabled /\ ai[1].n = 2 * batch_size + 1
    /\ ai[1].replies[1].kind = "raise"
    /\ ai[1].replies[2].kind = "list" /\ ai[1].replies[2].count = batch_size - 1
    /\ ai[1].replies[3].kind = "list" /\ ai[1].replies[3].count = 1
    /\ Len(ai[1].output) = 2 * batch_size + 1

---------------------------------------------------------------------------
(* views/categorization_review.py: the table of unconfirmed transactions   *)
(* (session key pending_trans_df) and its on_change callback               *)

MaxReviewEdits == 2

\* DatabaseOperations.update_transaction: the table after the request and
\* the value returned; `ok` is FALSE when the request raises
update_transaction(tbl, transaction_id, updates, user, ok) ==
    IF ok
    THEN [tbl |-> [i \in 1..Len(tbl) |->
                      IF tbl[i].id = transaction_id /\ tbl[i].user_id = user
                      THEN [f \in DOMAIN tbl[i] |->
                               IF f \in DOMAIN updates THEN updates[f] ELSE tbl[i][f]]
                      ELSE tbl[i]],
          ret |-> TRUE]
    ELSE [tbl |-> tbl, ret |-> FALSE]

\* user_categories_cache of the session
ReviewCategories == << [name |-> "Wonen", id |-> "c-wonen"] >>

\* cat_name_to_id.get(name)
CategoryIdOf(name) ==
    IF \E i \in 1..Len(ReviewCategories) : ReviewCategories[i].name = name
    THEN Some(ReviewCategories[CHOOSE i \in 1..Len(ReviewCategories) :
                                  ReviewCategories[i].name = name].id)
    ELSE None

\* the joined category name of get_transactions
CategoryNameOf(categorie_id) ==
    IF \E i \in 1..Len(ReviewCategories) : Some(ReviewCategories[i].id) = categorie_id
    THEN ReviewCategories[CHOOSE i \in 1..Len(ReviewCategories) :
                             Some(ReviewCategories[i].id) = categorie_id].name
    ELSE "Overig"

RECURSIVE OrderByDatumDesc(_)
\* order("datum", desc=True)
OrderByDatumDesc(rows) ==
    IF rows = <<>> THEN <<>>
    ELSE LET latest == CHOOSE i \in 1..Len(rows) :
                          \A j \in 1..Len(rows) :
                             \/ rows[i].datum = rows[j].datum /\ i <= j
                             \/ /\ rows[i].datum # rows[j].datum
                                /\ DateLeq(ParseIsoDate(rows[j].datum),
                                           ParseIsoDate(rows[i].datum))
         IN  <<rows[latest]>>
             \o OrderByDatumDesc([k \in 1..(Len(rows) - 1) |->
                                     IF k < latest THEN rows[k] ELSE rows[k + 1]])

\* get_transactions(user_id, is_confirmed=False): the empty list when the
\* request raises
get_transactions(tbl, user, ok) ==
    IF ok
    THEN OrderByDatumDesc(SelectSeq(tbl, LAMBDA r : r.user_id = user /\ ~r.is_confirmed))
    ELSE <<>>

\* one row of pending_trans_df
PendingRow(t) ==
    [Select |-> FALSE,
     Datum |-> ParseIsoDate(t.datum),
     Tegenpartij |-> IF ~Truthy(t.naam_tegenpartij)
                        \/ Strip(t.naam_tegenpartij[1]) \in {"", "-", "--", "---"}
                     THEN "Onbekend" ELSE t.naam_tegenpartij[1],
     Bedrag |-> t.bedrag,
     Categorie |-> CategoryNameOf(t.categorie_id),
     Omschrijving |-> OrEmpty(t.omschrijving),
     id |-> t.id]

\* show_pending_review: the frame built when it is absent or to be reloaded
LoadPending(tbl, user, ok) ==
    LET transactions == get_transactions(tbl, user, ok)
    IN  [i \in 1..Len(transactions) |-> PendingRow(transactions[i])]

\* one entry of edited_rows: the column edited and its new value
Change(col, text, amount) == [col |-> col, text |-> text, amount |-> amount]

\* handle_pending_change for one edited row at position `pos` (from 0),
\* without search or category filter and with no row selected: the frame
\* and the table after it, and what update_transaction returned
handle_pending_change(df, tbl, user, pos, change, ok) ==
    IF pos >= Len(df) THEN [df |-> df, tbl |-> tbl, wrote |-> None]
    ELSE
    LET idx         == pos + 1
        current_row == df[idx]
        cat_val == IF change.col = "Categorie" THEN change.text ELSE current_row.Categorie
        edited ==
            [current_row EXCEPT
                !.Categorie = cat_val,
                !.Tegenpartij = IF change.col = "Tegenpartij" THEN change.text ELSE @,
                !.Omschrijving = IF change.col = "Omschrijving" THEN change.text ELSE @,
                !.Bedrag = IF change.col = "Bedrag" THEN to_float(change.amount) ELSE @]
        updates ==
            [datum |-> IF change.col = "Datum" THEN change.text
                       ELSE DateStr(current_row.Datum),
             bedrag |-> IF change.col = "Bedrag" THEN to_float(change.amount)
                        ELSE current_row.Bedrag,
             naam_tegenpartij |-> Some(IF change.col = "Tegenpartij" THEN change.text
                                       ELSE current_row.Tegenpartij),
             omschrijving |-> Some(IF change.col = "Omschrijving" THEN change.text
                                   ELSE current_row.Omschrijving),
             categorie_id |-> CategoryIdOf(cat_val)]
        written(out) ==
            [df |-> [df EXCEPT ![idx] = edited], tbl |-> out.tbl, wrote |-> Some(out.ret)]
    IN  written(update_transaction(tbl, current_row.id, updates, user, ok))

---------------------------------------------------------------------------
(* Review specification: a store filled by an import, the table of         *)
(* unconfirmed transactions loaded from it and edited cell by cell.        *)

\* the fields of parsed rows (datum, bedrag, naam_tegenpartij, omschrijving)
ReviewParsed ==
    << <<[y |-> 2024, m |-> 3, d |-> 2], Dec(TRUE, 455, 1), Some("Delhaize"), Some("Bon 12")>>,
       <<[y |-> 2024, m |-> 3, d |-> 1], Dec(FALSE, 1005, 1), None, None>> >>

ReviewChanges ==
    {Change("Tegenpartij", "Lidl", Dec(FALSE, 0, 0)),
     Change("Omschrijving", "Bon 13", Dec(FALSE, 0, 0)),
     Change("Bedrag", "", Dec(TRUE, 4675, 2)),
     Change("Datum", "2024-03-01", Dec(FALSE, 0, 0)),
     Change("Categorie", "Wonen", Dec(FALSE, 0, 0))}

\* the store after the import of one or two parsed rows by user u1
ReviewInit ==
    /\ HashIdle /\ MigIdle /\ CatIdle /\ CreateIdle /\ AnIdle /\ ParseIdle /\ AiIdle
    /\ MemoIdle /\ SuggIdle /\ WizIdle
    /\ \E n \in 1..Len(ReviewParsed) :
          /\ db = insert_transactions(<<>>, 1,
                     [i \in 1..n |-> ParsedTransaction(ReviewParsed[i])], "u1",
                     [i \in 1..n |-> FALSE]).tbl
          /\ nextId = n + 1
    /\ pending = None /\ log = None
    /\ review = None

\* show_pending_review builds the frame (pending_trans_reload is set)
DoLoadPending ==
    /\ review = None
    /\ \E ok \in BOOLEAN :
          review' = Some([df |-> LoadPending(db, "u1", ok), edits |-> 0, wrote |-> None])
    /\ UNCHANGED <<hashVars, impVars, migVars, catVars, createVars, anVars, parseVars, ai,
                   memo, sugg, wiz>>

\* the on_change callback of the editor for one edited cell
DoHandlePendingChange ==
    /\ review # None /\ review[1].edits < MaxReviewEdits
    /\ \E pos \in 0..(Len(ReviewParsed) - 1), change \in ReviewChanges, ok \in BOOLEAN :
          LET out == handle_pending_change(review[1].df, db, "u1", pos, change, ok)
          IN  /\ review' = Some([df |-> out.df, edits |-> review[1].edits + 1,
                                 wrote |-> out.wrote])
              /\ db' = out.tbl
    /\ UNCHANGED <<hashVars, nextId, pending, log, migVars, catVars, createVars, anVars,
                   parseVars, ai, memo, sugg, wiz>>

ReviewNext == DoLoadPending \/ DoHandlePendingChange

SpecReview == ReviewInit /\ [][ReviewNext]_vars

\* C22: a failed store write is never silently dropped: when the write of
\* an edit fails in the store (update_transaction returns False), the
\* session's table does not show that edit as applied; it is left as it was.
C22_FailedWriteNotShown ==
    [][(/\ review # None /\ review' # None
        /\ review'[1].edits = review[1].edits + 1
        /\ review'[1].wrote = Some(FALSE))
       => review'[1].df = review[1].df]_vars

\* C25: every stored transaction's hash is the fingerprint of its stored
\* date, amount, counterparty and description, after every sequence of
\* import and edits in the review table.
C25_StoredHashConsistent ==
    \A i \in 1..Len(db) : db[i].hash = FreshHash(db[i])

---------------------------------------------------------------------------
(* services/analytics.py: the lru_cache(maxsize=1) of the getters.  The    *)
(* cache of a method belongs to the class: one slot per method, keyed by   *)
(* the instance the method was called on (an Analytics object hashes and   *)
(* compares by identity), and cache_clear() empties it for every instance. *)

MaxMemoCalls == 2

MemoMethods ==
    {"income", "expenses", "category_totals", "monthly_totals", "monthly_by_category",
     "investment_pct", "yoy"}

\* the body of get_category_totals
CategoryTotals(df) ==
    [c \in {df[i].categorie : i \in 1..Len(df)} |-> Sum(InCategory(df, c))]

MonthOf(r) == <<r.datum.y, r.datum.m>>

\* the body of get_monthly_totals: the months that hold an income or an
\* expense; a month without one of them holds 0 there (fillna)
MonthlyTotals(df) ==
    LET months == {MonthOf(df[i]) : i \in {j \in 1..Len(df) : df[j].bedrag # 0}}
        income(m)   == Sum(SelectSeq(df, LAMBDA r : MonthOf(r) = m /\ r.bedrag > 0))
        expenses(m) == Abs(Sum(SelectSeq(df, LAMBDA r : MonthOf(r) = m /\ r.bedrag < 0)))
    IN  [m \in months |-> [income |-> income(m), expenses |-> expenses(m),
                           net |-> income(m) - expenses(m)]]

\* the body of get_monthly_by_category
MonthlyByCategory(df) ==
    [g \in {<<MonthOf(df[i]), df[i].categorie>> : i \in 1..Len(df)} |->
        Sum(SelectSeq(df, LAMBDA r : <<MonthOf(r), r.categorie>> = g))]

\* what a getter computes on an instance that has nothing cached
FreshValue(m, df) ==
    LET a == [df |-> df, cache |-> NoCache, calls |-> 0]
    IN  CASE m = "income" -> get_total_income(a).ret
          [] m = "expenses" -> get_total_expenses(a).ret
          [] m = "category_totals" -> CategoryTotals(df)
          [] m = "monthly_totals" -> MonthlyTotals(df)
          [] m = "monthly_by_category" -> MonthlyByCategory(df)
          [] m = "investment_pct" -> get_investment_percentage(a).ret
          [] m = "yoy" -> get_year_over_year_comparison(a).ret

NoSlots == [m \in MemoMethods |-> None]

\* a slip: a cache that does not look at the instance it is asked for
LruCall_AnyInstance(c, m, k, value) ==
    IF c.slots[m] # None
    THEN [ret |-> c.slots[m][1].val, c |-> c]
    ELSE [ret |-> value, c |-> [c EXCEPT !.slots[m] = Some([key |-> k, val |-> value])]]

\* a call of method m on instance k through lru_cache(maxsize=1): the
\* stored value on a hit; on a miss `value` is returned and replaces what
\* the slot held
LruCall(c, m, k, value) ==
    IF c.slots[m] # None /\ c.slots[m][1].key = k
    THEN [ret |-> c.slots[m][1].val, c |-> c]
    ELSE [ret |-> value, c |-> [c EXCEPT !.slots[m] = Some([key |-> k, val |-> value])]]

Hit(c, m, k) == c.slots[m] # None /\ c.slots[m][1].key = k

\* get_total_income() on instance k
SharedTotalIncome(c, k) ==
    LruCall(c, "income", k,
            IF c.insts[k] = <<>> THEN 0 ELSE Sum(InCategory(c.insts[k], "Inkomen")))

\* get_total_expenses() on instance k: on a miss it calls get_total_income
SharedTotalExpenses(c, k) ==
    IF Hit(c, "expenses", k) THEN LruCall(c, "expenses", k, 0)
    ELSE LET expenses(inc) ==
                 LruCall(inc.c, "expenses", k,
                         inc.ret - (IF c.insts[k] = <<>> THEN 0 ELSE Sum(c.insts[k])))
         IN  expenses(SharedTotalIncome(c, k))

\* get_investment_percentage() on instance k
SharedInvestmentPercentage(c, k) ==
    IF Hit(c, "investment_pct", k) THEN LruCall(c, "investment_pct", k, 0)
    ELSE LET pct(inc) ==
                 LruCall(inc.c, "investment_pct", k,
                         IF inc.ret = 0 \/ c.insts[k] = <<>> THEN Ratio(0, 1)
                         ELSE Ratio(Abs(Sum(InCategory(c.insts[k], "Investeren"))) * 100,
                                    inc.ret))
         IN  pct(SharedTotalIncome(c, k))

\* a memoized getter called on instance k
SharedGet(c, m, k) ==
    CASE m = "income" -> SharedTotalIncome(c, k)
      [] m = "expenses" -> SharedTotalExpenses(c, k)
      [] m = "investment_pct" -> SharedInvestmentPercentage(c, k)
      [] m = "category_totals" -> LruCall(c, m, k, CategoryTotals(c.insts[k]))
      [] m = "monthly_totals" -> LruCall(c, m, k, MonthlyTotals(c.insts[k]))
      [] m = "monthly_by_category" -> LruCall(c, m, k, MonthlyByCategory(c.insts[k]))
      [] m = "yoy" -> LruCall(c, m, k,
                              get_year_over_year_comparison(
                                  [df |-> c.insts[k], cache |-> NoCache, calls |-> 0]).ret)

\* filter_by_date_range / filter_by_categories on instance k: `kept` is the
\* filtered frame; _clear_caches empties the slot of every method
SharedFilter(c, k, applies, kept) ==
    IF applies THEN [c EXCEPT !.insts[k] = kept, !.slots = NoSlots] ELSE c

---------------------------------------------------------------------------
(* Memo specification: two Analytics instances used alternately            *)

MemoLists ==
    LET row(y, m, d, bedrag, categorie) ==
            [datum |-> [y |-> y, m |-> m, d |-> d], bedrag |-> bedrag, categorie |-> categorie]
    IN  { <<>>,
          <<row(2024, 1, 10, 250000, Some("Inkomen")), row(2023, 12, 1, -50000, Some("Investeren"))>>,
          <<row(2024, 2, 3, -5000, Some(" Boodschappen ")), row(2024, 1, 12, 100000, Some("Inkomen"))>> }

MemoInit ==
    /\ HashIdle /\ ImpIdle /\ MigIdle /\ CatIdle /\ CreateIdle /\ AnIdle /\ ParseIdle
    /\ AiIdle /\ ReviewIdle /\ SuggIdle /\ WizIdle
    /\ \E l1 \in MemoLists, l2 \in MemoLists :
          memo = Some([insts |-> <<Analytics(l1).df, Analytics(l2).df>>, slots |-> NoSlots,
                       calls |-> <<>>])

OutsideMemo ==
    <<hashVars, impVars, migVars, catVars, createVars, anVars, parseVars, ai, review,
      sugg, wiz>>

\* one call on instance k: `c` is the class and its instances after it
MemoCall(name, k, returned, c) ==
    /\ Len(memo[1].calls) < MaxMemoCalls
    /\ memo' = Some([c EXCEPT !.calls = Append(memo[1].calls,
                                               [call |-> name, inst |-> k, ret |-> returned])])

DoSharedGet ==
    /\ memo # None
    /\ \E k \in 1..2, m \in MemoMethods :
          LET out == SharedGet(memo[1], m, k)
          IN  MemoCall(m, k, <<out.ret>>, out.c)
    /\ UNCHANGED OutsideMemo

DoSharedFilterByDateRange ==
    /\ memo # None
    /\ \E k \in 1..2 :
          LET df == memo[1].insts[k]
              start_date == [y |-> 2024, m |-> 1, d |-> 1]
              end_date   == [y |-> 2024, m |-> 1, d |-> 31]
          IN  MemoCall("filter_by_date_range", k, <<>>,
                       SharedFilter(memo[1], k, df # <<>>,
                                    filter_by_date_range([df |-> df, cache |-> NoCache,
                                                          calls |-> 0],
                                                         start_date, end_date).df))
    /\ UNCHANGED OutsideMemo

DoSharedFilterByCategories ==
    /\ memo # None
    /\ \E k \in 1..2, categories \in {<<>>, <<"Boodschappen", "Investeren">>} :
          LET df == memo[1].insts[k]
          IN  MemoCall("filter_by_categories", k, <<>>,
                       SharedFilter(memo[1], k, df # <<>> /\ categories # <<>>,
                                    filter_by_categories([df |-> df, cache |-> NoCache,
                                                          calls |-> 0], categories).df))
    /\ UNCHANGED OutsideMemo

MemoNext == DoSharedGet \/ DoSharedFilterByDateRange \/ DoSharedFilterByCategories

SpecMemo == MemoInit /\ [][MemoNext]_vars

\* C23: after every sequence of filter_by_date_range, filter_by_categories
\* and reads on two instances used alternately, each memoized getter, on
\* each instance, returns what a getter of a fresh Analytics on that
\* instance's current rows returns.
C23_MemoNeverStale ==
    memo # None =>
        \A k \in 1..2, m \in MemoMethods :
            SharedGet(memo[1], m, k).ret = FreshValue(m, memo[1].insts[k])

\* the total income was read on one instance and then on the other one,
\* whose rows give another amount, while the slot held the first amount
C23_Witness ==
    /\ memo # None /\ Len(memo[1].calls) = 2
    /\ memo[1].calls[1].call = "income"
    /\ memo[1].calls[2].call = "income"
    /\ memo[1].calls[2].inst # memo[1].calls[1].inst
    /\ memo[1].calls[2].ret # memo[1].calls[1].ret
    /\ memo[1].slots["income"] = Some([key |-> memo[1].calls[2].inst,
                                       val |-> memo[1].calls[2].ret[1]])

---------------------------------------------------------------------------
(* services/category_suggester.py.  CATEGORY_KEYWORDS is an attribute of   *)
(* the class: one dict for every CategorySuggester, in insertion order.    *)

RECURSIVE StrOf(_)
\* the str made of a sequence of characters
StrOf(cs) == IF cs = <<>> THEN "" ELSE cs[1] \o StrOf(Tail(cs))

LowerStr(s) == StrOf(Lower(s))

IsLetter(c) ==
    \E k \in 1..Len(UpperChars) : c \in {SubSeq(UpperChars, k, k), SubSeq(LowerChars, k, k)}

UpperChar(c) ==
    IF \E k \in 1..Len(LowerChars) : SubSeq(LowerChars, k, k) = c
    THEN LET k == CHOOSE k \in 1..Len(LowerChars) : SubSeq(LowerChars, k, k) = c
         IN  SubSeq(UpperChars, k, k)
    ELSE c

\* str.title(): a letter after a character that is no letter is made upper
\* case, every other letter lower case
Title(s) ==
    StrOf([i \in 1..Len(s) |->
              IF i = 1 \/ ~IsLetter(SubSeq(s, i - 1, i - 1))
              THEN UpperChar(SubSeq(s, i, i)) ELSE LowerChar(SubSeq(s, i, i))])

Keywords(name, keywords) == [name |-> name, keywords |-> keywords]

\* the class attribute as the module defines it
CATEGORY_KEYWORDS ==
    << Keywords("Eten & Drinken",
           <<"delhaize", "colruyt", "carrefour", "albert heijn", "aldi", "lidl",
             "restaurant", "cafe", "bar", "pizza", "sushi", "fritkot",
             "uber eats", "deliveroo", "takeaway", "bakker", "de brug">>),
       Keywords("Wonen",
           <<"huur", "verhuurder", "electrabel", "engie", "proximus", "telenet",
             "water", "gas", "elektriciteit", "internet", "wifi">>),
       Keywords("Transport",
           <<"nmbs", "de lijn", "stib", "mivb", "uber", "taxi", "shell",
             "total", "benzine", "parking", "villo", "cambio">>),
       Keywords("Vrije Tijd",
           <<"netflix", "spotify", "cinema", "kinepolis", "ugc", "steam",
             "playstation", "xbox", "concert", "festival", "museum", "theater">>),
       Keywords("Sport & Gezondheid",
           <<"basic-fit", "fitness", "gym", "sportcity", "apotheek",
             "pharmacy", "dokter", "tandarts", "ziekenhuis">>),
       Keywords("Kleding",
           <<"h&m", "zara", "c&a", "primark", "bershka", "mango",
             "nike", "adidas", "schoenen">>),
       Keywords("Reizen",
           <<"booking", "airbnb", "ryanair", "brussels airlines", "thalys",
             "eurostar", "hotel", "hostel", "trip">>),
       Keywords("Investeren",
           <<"saxo", "bolero", "degiro", "binance", "coinbase",
             "beleggen", "aandelen", "crypto">>),
       Keywords("Inkomen", <<"idefix", "salaris", "loon", "bonus", "teruggave">>) >>

RECURSIVE Flatten(_)
Flatten(lists) == IF lists = <<>> THEN <<>> ELSE lists[1] \o Flatten(Tail(lists))

RECURSIVE Distinct(_)
\* list(set(xs)) for a list whose order does not matter to the callers
\* modelled here (the order Python gives is arbitrary): the distinct
\* elements in the order of their first occurrence
Distinct(xs) ==
    IF xs = <<>> THEN <<>>
    ELSE <<xs[1]>> \o Distinct(SelectSeq(Tail(xs), LAMBDA x : x # xs[1]))

\* the body of the loop of __init__ for one user category: the class
\* attribute after it
MergeKeywords(table, cat) ==
    LET used == SelectSeq(cat.rules,
                          LAMBDA r : r.field \in {"naam_tegenpartij", "omschrijving"}
                                     /\ r.contains # <<>>)
        db_keywords == Flatten([i \in 1..Len(used) |-> used[i].contains])
        known == \E i \in 1..Len(table) : table[i].name = cat.name
        with  == IF known THEN table ELSE Append(table, Keywords(cat.name, <<>>))
    IN  IF db_keywords = <<>> THEN table
        ELSE [i \in 1..Len(with) |->
                 IF with[i].name = cat.name
                 THEN Keywords(cat.name, Distinct(with[i].keywords \o db_keywords))
                 ELSE with[i]]

RECURSIVE SuggesterInit(_, _)
\* CategorySuggester.__init__(user_categories=...): the class attribute
\* after the construction
SuggesterInit(table, user_categories) ==
    IF user_categories = <<>> THEN table
    ELSE SuggesterInit(MergeKeywords(table, user_categories[1]), Tail(user_categories))

\* the keywords of the table in the order of the two nested loops
AllKeywords(table) == Flatten([i \in 1..Len(table) |-> table[i].keywords])

FirstAt(kws, hits) ==
    IF hits = {} THEN None ELSE Some(kws[CHOOSE i \in hits : \A j \in hits : i <= j])

KeywordHits(kws, hit(_)) == FirstAt(kws, {i \in 1..Len(kws) : hit(kws[i])})

\* the first keyword of the nested loops that satisfies `hit`, or None
FirstKeyword(table, hit(_)) == KeywordHits(AllKeywords(table), hit)

VagueTerms ==
    {"", "-", "--", "---", "onbekend", "overschrijving", "betaling", "mededeling",
     "interne overschrijving"}

\* the name taken from the keyword found, if one was found
NamedAfter(t, found, otherwise) ==
    IF found # None THEN [t EXCEPT !.naam_tegenpartij = Some(Title(found[1]))]
    ELSE [t EXCEPT !.naam_tegenpartij = Some(otherwise)]

\* the first 30 characters of a description, stripped, with an ellipsis
\* when it is longer
Snippet(text) ==
    Strip(SubSeq(text, 1, IF Len(text) < 30 THEN Len(text) ELSE 30))
        \o (IF Len(text) > 30 THEN "..." ELSE "")

\* _enrich_transaction_name for a name that is vague
EnrichVague(table, t, description) ==
    NamedAfter(t, FirstKeyword(table, LAMBDA kw : Contains(kw, description)),
               IF IsPositive(t.bedrag) THEN "Inkomen / Teruggave"
               ELSE IF Truthy(t.omschrijving) /\ Len(t.omschrijving[1]) > 5
                    THEN Snippet(t.omschrijving[1])
                    ELSE "Onbekend")

\* _enrich_transaction_name for a name that is not vague
EnrichNamed(table, t, original_name) ==
    NamedAfter(t, FirstKeyword(table, LAMBDA kw : Contains(kw, LowerStr(original_name))
                                                  /\ Len(kw) > 3),
               Title(original_name))

EnrichByName(table, t, original_name) ==
    IF original_name = "" \/ LowerStr(original_name) \in VagueTerms
    THEN EnrichVague(table, t, LowerStr(OrEmpty(t.omschrijving)))
    ELSE EnrichNamed(table, t, original_name)

\* _enrich_transaction_name: the transaction after it
_enrich_transaction_name(table, t) ==
    EnrichByName(table, t, Strip(OrEmpty(t.naam_tegenpartij)))

\* the key under which _group_by_counterparty files a transaction, None
\* when it files it nowhere
GroupKey(t) ==
    IF Truthy(t.naam_tegenpartij) THEN Some(Strip(LowerStr(t.naam_tegenpartij[1])))
    ELSE IF Truthy(t.omschrijving) THEN Some("onbekend")
    ELSE None

GroupsOf(transactions, keys) ==
    [g \in 1..Len(keys) |->
        [counterparty |-> keys[g],
         txns |-> {i \in 1..Len(transactions) : GroupKey(transactions[i]) = Some(keys[g])}]]

KeysOf(keyed) == Distinct([i \in 1..Len(keyed) |-> keyed[i][1]])

\* _group_by_counterparty: the keys in the order of their first
\* transaction, each with the positions of its transactions
_group_by_counterparty(transactions) ==
    GroupsOf(transactions,
             KeysOf(SelectSeq([i \in 1..Len(transactions) |-> GroupKey(transactions[i])],
                              LAMBDA k : k # None)))

\* the category whose list holds the keyword found (the first such
\* category), None when no keyword was found
CategoryOfKeyword(table, found) ==
    IF found = None THEN None
    ELSE Some(table[CHOOSE c \in 1..Len(table) :
                       /\ \E k \in 1..Len(table[c].keywords) :
                              table[c].keywords[k] = found[1]
                       /\ \A d \in 1..(c - 1) :
                              \A k \in 1..Len(table[d].keywords) :
                                  table[d].keywords[k] # found[1]].name)

\* _match_to_category: the category, None when there is none
_match_to_category(table, counterparty, txns) ==
    IF \A i \in 1..Len(txns) : IsPositive(txns[i].bedrag) THEN Some("Inkomen")
    ELSE CategoryOfKeyword(table,
             FirstKeyword(table,
                 LAMBDA kw : \/ Contains(kw, LowerStr(counterparty))
                             \/ \E i \in 1..Len(txns) :
                                    /\ Truthy(txns[i].omschrijving)
                                    /\ Contains(kw, LowerStr(txns[i].omschrijving[1]))))

Proposal(name, transaction_count, counterparties) ==
    [name |-> name, transaction_count |-> transaction_count,
     counterparties |-> counterparties]

\* the end of analyze_and_suggest: the income proposal, the 'Overig'
\* proposal and the labels put on the transactions
Finalize(enriched, grouped, label, income_txns, add_income) ==
    LET with_income(ps) ==
            IF add_income
            THEN Append(ps, Proposal("Inkomen", Cardinality(income_txns),
                                     {Title(enriched[i].naam_tegenpartij[1]) :
                                         i \in {j \in income_txns :
                                                   Truthy(enriched[j].naam_tegenpartij)}}))
            ELSE ps
        with_overig(ps) ==
            IF \E k \in 1..Len(ps) : ps[k].name = "Overig"
            THEN ps ELSE Append(ps, Proposal("Overig", 0, {}))
    IN  [suggestions |-> with_overig(with_income(grouped)),
         processed |-> [i \in 1..Len(enriched) |->
                          [obj |-> i,
                           txn |-> [enriched[i] EXCEPT !.categorie =
                                       Some(IF add_income /\ i \in income_txns
                                            THEN "Inkomen" ELSE label[i])]]]]

\* the loop over the groups, `matched` holding what _match_to_category
\* returned for each group and `names` the matched categories in the order
\* of their first group
SuggestMatched(enriched, groups, matched, names) ==
    LET of(name) == {g \in 1..Len(groups) : matched[g] = Some(name)}
    IN  Finalize(enriched,
                 [k \in 1..Len(names) |->
                     Proposal(names[k],
                              Cardinality(UNION {groups[g].txns : g \in of(names[k])}),
                              {Title(groups[g].counterparty) : g \in of(names[k])})],
                 [i \in 1..Len(enriched) |->
                     IF \E g \in 1..Len(groups) : i \in groups[g].txns /\ matched[g] # None
                     THEN matched[CHOOSE g \in 1..Len(groups) : i \in groups[g].txns][1]
                     ELSE "Overig"],
                 {i \in 1..Len(enriched) : IsPositive(enriched[i].bedrag)},
                 /\ \E i \in 1..Len(enriched) : IsPositive(enriched[i].bedrag)
                 /\ \A k \in 1..Len(names) : names[k] # "Inkomen")

MatchedNames(named) == Distinct([k \in 1..Len(named) |-> named[k][1]])

SuggestGroups(enriched, groups, matched) ==
    SuggestMatched(enriched, groups, matched,
                   MatchedNames(SelectSeq(matched, LAMBDA m : m # None)))

SuggestEnriched(table, enriched, groups) ==
    SuggestGroups(enriched, groups,
        [g \in 1..Len(groups) |->
            _match_to_category(table, groups[g].counterparty,
                SelectSeq(enriched, LAMBDA t : GroupKey(t) = Some(groups[g].counterparty)))])

\* analyze_and_suggest on the objects of `transactions`: the proposals in
\* the order of the dict (name, transaction_count, counterparties) and the
\* returned list, each object given by its position in the input and its
\* fields after the call
analyze_and_suggest(table, transactions) ==
    SuggestEnriched(table,
        [i \in 1..Len(transactions) |-> _enrich_transaction_name(table, transactions[i])],
        _group_by_counterparty(
            [i \in 1..Len(transactions) |->
                _enrich_transaction_name(table, transactions[i])]))

---------------------------------------------------------------------------
(* Suggester specification: suggesters constructed one after another in    *)
(* one process, for users with and without categories of their own, each   *)
(* used for one analysis.                                                  *)

MaxSuggesters == 2

MaxSuggestTx == 2

SuggestPool ==
    {Transaction([y |-> 2024, m |-> 3, d |-> 1], Dec(TRUE, 4550, 2), Some("DELHAIZE GENT"), None),
     Transaction([y |-> 2024, m |-> 3, d |-> 1], Dec(TRUE, 1999, 2), Some("Zooplus"), None),
     Transaction([y |-> 2024, m |-> 3, d |-> 2], Dec(FALSE, 1999, 2), Some("Zooplus"), Some("Retour")),
     Transaction([y |-> 2024, m |-> 3, d |-> 1], Dec(FALSE, 250000, 2), None, Some("Salaris maart")),
     Transaction([y |-> 2024, m |-> 3, d |-> 2], Dec(TRUE, 1200, 2), Some("---"), None)}

\* the categories a user holds in the store: none, or one category of the
\* user's own with one keyword
SuggestUsers ==
    { <<>>,
      <<[name |-> "Huisdieren", rules |-> <<TextRule("naam_tegenpartij", <<"zooplus">>)>>]>> }

SuggestInit ==
    /\ HashIdle /\ ImpIdle /\ MigIdle /\ CatIdle /\ CreateIdle /\ AnIdle /\ ParseIdle
    /\ AiIdle /\ ReviewIdle /\ MemoIdle /\ WizIdle
    /\ sugg = Some([table |-> CATEGORY_KEYWORDS, made |-> 0, owner |-> <<>>,
                    input |-> <<>>, out |-> None])

\* CategorySuggester(user_categories=...)
DoNewSuggester ==
    /\ sugg[1].made < MaxSuggesters
    /\ \E user_categories \in SuggestUsers :
          sugg' = Some([table |-> SuggesterInit(sugg[1].table, user_categories),
                        made |-> sugg[1].made + 1, owner |-> user_categories,
                        input |-> <<>>, out |-> None])
    /\ UNCHANGED <<hashVars, impVars, migVars, catVars, createVars, anVars, parseVars,
                   ai, review, memo, wiz>>

\* analyze_and_suggest on the suggester made last
DoAnalyzeAndSuggest ==
    /\ sugg[1].made > 0 /\ sugg[1].out = None
    /\ \E n \in 1..MaxSuggestTx : \E transactions \in [1..n -> SuggestPool] :
          sugg' = Some([sugg[1] EXCEPT
                           !.input = transactions,
                           !.out = Some(analyze_and_suggest(sugg[1].table, transactions))])
    /\ UNCHANGED <<hashVars, impVars, migVars, catVars, createVars, anVars, parseVars,
                   ai, review, memo, wiz>>

SuggestNext == DoNewSuggester \/ DoAnalyzeAndSuggest

SpecSuggest == SuggestInit /\ [][SuggestNext]_vars

\* C24: analyze_and_suggest returns every input transaction exactly once,
\* in a list of the same length, each with a label, and the
\* transaction_count of every proposal (the fallback 'Overig' included) is
\* the number of returned transactions that carry the proposal's name.
C24_CountsMatchLabels ==
    (sugg # None /\ sugg[1].out # None) =>
        LET out == sugg[1].out[1]
        IN  /\ [i \in 1..Len(out.processed) |-> out.processed[i].obj]
                  = [i \in 1..Len(sugg[1].input) |-> i]
            /\ \A i \in 1..Len(out.processed) : Truthy(out.processed[i].txn.categorie)
            /\ \A k \in 1..Len(out.suggestions) :
                  out.suggestions[k].transaction_count =
                      Cardinality({i \in 1..Len(out.processed) :
                                      out.processed[i].txn.categorie
                                          = Some(out.suggestions[k].name)})

\* C29: what a suggester returns depends only on the built-in keywords and
\* on the user categories given to its own constructor: it is what a
\* suggester made from the built-in table and those categories returns.
C29_SuggesterIsolation ==
    (sugg # None /\ sugg[1].out # None) =>
        sugg[1].out[1] = analyze_and_suggest(SuggesterInit(CATEGORY_KEYWORDS, sugg[1].owner),
                                             sugg[1].input)

---------------------------------------------------------------------------
(* The upload wizard (views/upload.py): one rerun of show_upload_page at a *)
(* time, on the session state, the store, and the widgets that the run     *)
(* before it rendered. A button can be clicked only when the last run      *)
(* rendered it; the uploader loses its file when a run does not render it. *)

MaxWizardRuns == 5

\* st.session_state: the keys present and their values (an absent key
\* holds the value of NewSession). parsed_transactions is None or
\* Some(list). No code puts 'approved_categories' into the session, so
\* line 67 never creates 'temp_approved_categories' either.
NewSession ==
    [keys |-> {}, upload_step |-> "", parsed_transactions |-> None,
     suggested_categories |-> None, current_transactions |-> <<>>, page |-> ""]

\* st.session_state[key] = value
SetItem(s, key, value) ==
    [f \in DOMAIN s |-> IF f = "keys" THEN s.keys \cup {key}
                        ELSE IF f = key THEN value ELSE s[f]]

\* st.session_state.pop(key, None)
Pop(s, key) ==
    [f \in DOMAIN s |-> IF f = "keys" THEN s.keys \ {key}
                        ELSE IF f = key THEN NewSession[f] ELSE s[f]]

\* `if key not in st.session_state: st.session_state[key] = value`
SetDefault(s, key, value) == IF key \in s.keys THEN s ELSE SetItem(s, key, value)

\* `not transactions` of a session value that is None or a list
NoTransactions(v) == v = None \/ v[1] = <<>>

\* `t.name` read from a Transaction: AttributeError for a name that is
\* not a field
GetAttr(t, name) ==
    IF name \in TransactionFields THEN Returned(t[name]) ELSE Raised

\* the state of one run of the script: the session, the two tables of the
\* store, the widgets rendered so far, the exception that ended the run
\* ("" for none), whether st.rerun() was called, and the number of calls of
\* insert_transactions
StartRun(s, tbl, next, cattbl, catnext) ==
    [session |-> s, tbl |-> tbl, next |-> next, cattbl |-> cattbl,
     catnext |-> catnext, rendered |-> {}, raised |-> "", rerun |-> FALSE,
     inserts |-> 0]

Render(out, widget) == [out EXCEPT !.rendered = @ \cup {widget}]

Assign(out, key, value) == [out EXCEPT !.session = SetItem(@, key, value)]

\* a button whose click assigns one session key and reruns
Rerun(out, key, value) == [Assign(out, key, value) EXCEPT !.rerun = TRUE]

\* lines 175-178
CancelButton(out, click) ==
    IF click = "cancel"
    THEN Rerun(Render(out, "cancel"), "page", "dashboard")
    ELSE Render(out, "cancel")

\* the objects analyze_batch returns for the list `txns`
Analysed(txns, enabled, reply) ==
    LET res == analyze_batch(enabled, txns, [i \in 1..Len(txns) |-> i],
                             <<reply, reply, reply>>, available_categories)
    IN  [i \in 1..Len(res.processed) |-> res.heap[res.processed[i]]]

\* lines 168-173 with a slip: the step moves on without the list
AfterAnalysis_StepOnly(out, processed_txns) ==
    IF processed_txns = <<>>
    THEN CancelButton(out, "")
    ELSE Rerun(out, "upload_step", "review_categories")

\* lines 168-173: the analysed list is stored and the step moves on
AfterAnalysis(out, processed_txns) ==
    IF processed_txns = <<>>
    THEN CancelButton(out, "")
    ELSE Rerun(Assign(out, "parsed_transactions", Some(processed_txns)),
               "upload_step", "review_categories")

\* lines 156-173: the click on the analysis button
AnalyseButton(out, enabled, reply) ==
    IF out.session.current_transactions = <<>>
    THEN out
    ELSE AfterAnalysis(out, Analysed(out.session.current_transactions, enabled, reply))

\* lines 134-178 for the transactions the duplicate filter kept
StoreUnique(out, unique_transactions, click, enabled, reply) ==
    IF unique_transactions = <<>>
    THEN Assign(out, "current_transactions", unique_transactions)
    ELSE IF click = "ai"
    THEN AnalyseButton(Render(Assign(out, "current_transactions", unique_transactions),
                              "ai"), enabled, reply)
    ELSE CancelButton(Render(Assign(out, "current_transactions", unique_transactions),
                             "ai"), click)

\* lines 95-132 for the transactions the parser returned
FilterParsed(out, raw_transactions, user, click, fetchOk, enabled, reply) ==
    IF raw_transactions = <<>>
    THEN out
    ELSE StoreUnique(out,
                     FilterDuplicates(raw_transactions,
                                      get_existing_hashes(out.tbl, user, fetchOk)).unique,
                     click, enabled, reply)

\* show_file_upload: `file` is the content of the uploader (None, or the
\* rows the parser reads from the file)
show_file_upload(out, file, user, click, fetchOk, enabled, reply) ==
    IF file = None
    THEN CancelButton(Render(out, "uploader"), click)
    ELSE IF user = None
    THEN Render(out, "uploader")
    ELSE FilterParsed(Render(out, "uploader"), ParseRows(file[1]), user[1], click,
                      fetchOk, enabled, reply)

\* lines 326-337
ReviewButtons(out, click) ==
    IF click = "back_upload"
    THEN Rerun(Render(out, "back_upload"), "upload_step", "upload")
    ELSE IF click = "approve"
    THEN Rerun(Render(Render(out, "back_upload"), "approve"), "upload_step", "import")
    ELSE Render(Render(out, "back_upload"), "approve")

\* show_category_review: the summary loop reads t.ai_confidence of the
\* first transaction (line 205) before any widget is rendered, and line
\* 272 reads st.session_state['temp_approved_categories']
show_category_review(out, click) ==
    IF NoTransactions(out.session.parsed_transactions)
    THEN out
    ELSE IF GetAttr(out.session.parsed_transactions[1][1], "ai_confidence").raised
    THEN [out EXCEPT !.raised = "AttributeError"]
    ELSE IF "temp_approved_categories" \notin out.session.keys
    THEN [out EXCEPT !.raised = "KeyError"]
    ELSE ReviewButtons(out, click)

\* cat_map of perform_import (lines 423-424): the id of the user's last
\* category of this name; None when the map has no such key
CatMapGet(cattbl, user, name, ok) ==
    LET rows == {i \in 1..Len(cattbl) :
                    cattbl[i].user_id = user /\ Some(cattbl[i].name) = name}
    IN  IF ok /\ rows # {}
        THEN Some(cattbl[CHOOSE i \in rows : \A j \in rows : j <= i].id)
        ELSE None

\* lines 435-436: t.categorie_id = cat_map.get(t.categorie, overig_id)
LinkCategories(transactions, cattbl, user, overig_id, ok) ==
    [i \in 1..Len(transactions) |->
        [transactions[i] EXCEPT !.categorie_id =
            IF CatMapGet(cattbl, user, transactions[i].categorie, ok) # None
            THEN CatMapGet(cattbl, user, transactions[i].categorie, ok)
            ELSE overig_id]]

\* lines 453-456
ClearSession(s) ==
    Pop(Pop(Pop(Pop(s, "upload_step"), "parsed_transactions"),
            "suggested_categories"), "approved_categories")

\* lines 435-461 once "Overig" has the id `overig_id` in the table `made`
ImportLinked(out, made, transactions, user, overig_id, ok, stored) ==
    [out EXCEPT !.session = ClearSession(@),
                !.tbl = stored.tbl, !.next = stored.next,
                !.cattbl = made.tbl, !.catnext = made.next,
                !.inserts = @ + 1,
                !.rendered = @ \cup {"dashboard"}]

\* lines 421-438 on the category table `made` that lines 383-387 left:
\* "Overig" is created again when the map read does not show it
ImportWithCategories(out, made, transactions, user, ok, faults) ==
    LET again == IF CatMapGet(made.tbl, user, Some("Overig"), ok) = None
                 THEN create_category(made.tbl, made.next,
                                      Category(None, None, "Overig", <<>>, "#9ca3af"),
                                      user, ok, ok, FALSE)
                 ELSE [tbl |-> made.tbl, next |-> made.next,
                       id |-> CatMapGet(made.tbl, user, Some("Overig"), ok)]
    IN  ImportLinked(out, again, transactions, user, again.id, ok,
                     insert_transactions(out.tbl, out.next,
                         LinkCategories(transactions, made.tbl, user, again.id, ok),
                         user, faults))

\* perform_import(transactions, user_id); `ok` is FALSE when the requests
\* on the category table raise, faults[i] is a store failure on the i-th
\* insert. 'temp_approved_categories' is absent, so the loop of lines
\* 391-419 has nothing to create.
perform_import(out, transactions, user, ok, faults) ==
    ImportWithCategories(out,
        create_category(out.cattbl, out.catnext,
                        Category(None, None, "Overig", <<>>, "#9ca3af"),
                        user, ok, ok, FALSE),
        transactions, user, ok, faults)

\* lines 364-373
ImportButtons(out, user, click, ok, faults) ==
    IF click = "back_review"
    THEN Rerun(Render(out, "back_review"), "upload_step", "review_categories")
    ELSE IF click = "import"
    THEN perform_import(Render(Render(out, "back_review"), "import"),
                        out.session.parsed_transactions[1], user, ok, faults)
    ELSE Render(Render(out, "back_review"), "import")

\* show_import_confirmation: len(transactions) at line 352 raises for
\* None, and line 359 reads t.ai_confidence of every transaction
show_import_confirmation(out, user, click, ok, faults) ==
    IF user = None
    THEN out
    ELSE IF out.session.parsed_transactions = None
    THEN [out EXCEPT !.raised = "TypeError"]
    ELSE IF \E i \in 1..Len(out.session.parsed_transactions[1]) :
               GetAttr(out.session.parsed_transactions[1][i], "ai_confidence").raised
    THEN [out EXCEPT !.raised = "AttributeError"]
    ELSE ImportButtons(out, user[1], click, ok, faults)

\* lines 59-65: the keys of the workflow get their first values
InitKeys(s) ==
    SetDefault(SetDefault(SetDefault(s, "upload_step", "upload"),
                          "parsed_transactions", None),
               "suggested_categories", None)

\* lines 70-76
Dispatch(out, inp) ==
    IF out.session.upload_step = "upload"
    THEN show_file_upload(out, inp.file, inp.user, inp.click, inp.ok,
                          inp.enabled, inp.reply)
    ELSE IF out.session.upload_step = "review_categories"
    THEN show_category_review(out, inp.click)
    ELSE IF out.session.upload_step = "import"
    THEN show_import_confirmation(out, inp.user, inp.click, inp.ok, inp.faults)
    ELSE out

\* show_upload_page: one run of the script on the session `s`
show_upload_page(s, tbl, next, cattbl, catnext, inp) ==
    Dispatch(StartRun(InitKeys(s), tbl, next, cattbl, catnext), inp)

---------------------------------------------------------------------------
(* Wizard specification: a signed-in user on the import page; every step   *)
(* is one run of show_upload_page after one event of the user (a file put  *)
(* into or taken out of the uploader, a click on a rendered button) or     *)
(* after st.rerun().                                                       *)

\* the rows the parser reads from the uploaded files: none, one, two
WizardFiles ==
    {<<>>,
     <<<<Date1, Dec(FALSE, 10000, 2), Some("Salaris BV"), Some("Maandloon")>>>>,
     <<<<Date2, Dec(TRUE, 4550, 2), Some("Delhaize"), None>>>>,
     <<<<Date2, Dec(TRUE, 4550, 2), Some("Delhaize"), None>>,
       <<Date1, Dec(FALSE, 10000, 2), Some("Salaris BV"), Some("Maandloon")>>>>}

\* the oracle's answers to the analysis of one chunk
WizardReplies ==
    {AiReply("raise", 0, NotADict),
     AiReply("list", 1, AiResult(Some("Aldi"), Some("eten & drinken"), Some(9)))}

\* the rows of an earlier import
WizardStored == <<<<Date2, Dec(TRUE, 4550, 2), Some("Delhaize"), None>>>>

\* a new session; the store is empty or holds one imported transaction
WizardInit ==
    /\ HashIdle /\ MigIdle /\ CatIdle /\ CreateIdle /\ AnIdle /\ ParseIdle
    /\ AiIdle /\ ReviewIdle /\ MemoIdle /\ SuggIdle
    /\ \E n \in 0..1 :
          /\ db = insert_transactions(<<>>, 1,
                     [i \in 1..n |-> ParsedTransaction(WizardStored[i])], "u1",
                     [i \in 1..n |-> FALSE]).tbl
          /\ nextId = n + 1
    /\ pending = None /\ log = None
    /\ wiz = Some([session |-> NewSession, file |-> None, rendered |-> {},
                   rerun |-> FALSE, raised |-> "", runs |-> 0, inserts |-> 0])

\* the events the user can cause on the page the last run left: after
\* st.rerun() the script runs again at once
WizardClicks(w) == IF w.rerun THEN {""} ELSE {""} \cup (w.rendered \ {"uploader"})

WizardUploads(w, click) ==
    IF "uploader" \notin w.rendered THEN {None}
    ELSE IF w.rerun \/ click # "" THEN {w.file}
    ELSE {None} \cup {Some(f) : f \in WizardFiles}

\* the step the next run of the script dispatches on
StepAt(s) == InitKeys(s).upload_step

WizardFaults(s) ==
    IF StepAt(s) = "import" /\ s.parsed_transactions # None
    THEN [1..Len(s.parsed_transactions[1]) -> BOOLEAN]
    ELSE {<<>>}

\* the wizard after a run of the script
AfterRun(w, out, file) ==
    [session |-> out.session,
     file |-> IF "uploader" \in out.rendered THEN file ELSE None,
     rendered |-> out.rendered, rerun |-> out.rerun, raised |-> out.raised,
     runs |-> w.runs + 1, inserts |-> out.inserts]

ShowUploadPage(w, out, file) ==
    /\ wiz' = Some(AfterRun(w, out, file))
    /\ db' = out.tbl
    /\ nextId' = out.next
    /\ cats' = out.cattbl
    /\ catNextId' = out.catnext

DoShowUploadPage ==
    /\ wiz # None /\ wiz[1].runs < MaxWizardRuns
    /\ \E click \in WizardClicks(wiz[1]), ok \in BOOLEAN, enabled \in BOOLEAN,
          reply \in WizardReplies :
       \E file \in WizardUploads(wiz[1], click),
          faults \in WizardFaults(wiz[1].session) :
          ShowUploadPage(wiz[1],
              show_upload_page(wiz[1].session, db, nextId, cats, catNextId,
                  [file |-> file, user |-> Some("u1"), click |-> click, ok |-> ok,
                   enabled |-> enabled, reply |-> reply, faults |-> faults]),
              file)
    /\ UNCHANGED <<hashVars, pending, log, migVars, catVars, catConstraint, sess,
                   anVars, parseVars, ai, review, memo, sugg>>

WizardNext == DoShowUploadPage

SpecWizard == WizardInit /\ [][WizardNext]_vars

WizardSteps == {"upload", "review_categories", "import"}

WizardStopsAtReview ==
    wiz # None =>
        /\ wiz[1].session.upload_step # "import"
        /\ wiz[1].inserts = 0
        /\ (wiz[1].raised # "" => /\ wiz[1].raised = "AttributeError"
                                  /\ wiz[1].session.upload_step = "review_categories"
                                  /\ wiz[1].rendered = {})

====
